---- MODULE Spec2Model ----
(***************************************************************************)
(* dotsync: the dotfile scanner (DotfileScanner), its type classifier and  *)
(* its exclusion matcher; the parser factory and the format parsers; the   *)
(* restore, backup and analysis managers.                                  *)
(*                                                                         *)
(* A JavaScript string is a sequence of one-character strings, so that     *)
(* basename, extname, includes, toLowerCase, join and the regular          *)
(* expression test are computed character by character.  An optional       *)
(* field of ScanOptions is <<>> when it is undefined and <<v>> when it     *)
(* holds v.                                                                *)
(***************************************************************************)
EXTENDS Integers, Sequences, FiniteSets, TLC

VARIABLES
    fs,           \* the file system the scan runs against
    pc,           \* position of scan(): "idle", "loop", "done"
    options,      \* the ScanOptions of the running scan
    pathsToScan,  \* scan: pathsToScan
    idx,          \* scan: 1-based position of the for..of loop
    configs,      \* scan: configs
    errors,       \* scan: errors
    fsLog,        \* the fs/promises calls made so far, in order
    produced,     \* how many configs each finished loop iteration pushed
    result,       \* the Result scan() returned
    nameParts,    \* classifier harness: fragments of the file name, in order
    classified,   \* classifier harness: <<>> or <<determineConfigType(name)>>
    parsers,      \* ParserFactory.parsers: the cached instance of each kind
    created,      \* the parser instances constructed so far, in order
    returned,     \* what each getParser call was asked for and returned
    parserInput,  \* parser harness: the content handed to the parsers
    analysis,     \* parser harness: <<>> or <<what the parsers returned>>
    restorePc,    \* position of restoreFromRepository: "idle", its steps, "done"
    restoreOptions, \* <<>> or <<the RestoreOptions of the running restore>>
    machine,      \* <<>> or <<the clone and the home directory the restore meets>>
    restoreLocals, \* restoreFromRepository: repoPath, configs and the two counts
    effects,      \* the calls that change the machine made so far, in order
    restoreResult, \* <<>> or <<the Result restoreFromRepository returned>>
    backupPc,     \* position of createBackup: "idle", its steps, "done"
    backupCall,   \* <<>> or <<configs, options and the services' answers>>
    analyzedConfigs, \* createBackup: analyzedConfigs
    backupResult, \* <<>> or <<the Result createBackup returned>>
    analysisPc,   \* position of analyzeMultipleConfigs: "idle", "launch", "await", "delay", "done"
    analysisCall, \* <<>> or <<configs, i, results, errors and the calls of the batch>>
    analysisResult \* <<>> or <<the Result analyzeMultipleConfigs returned>>

vars == <<fs, pc, options, pathsToScan, idx, configs, errors, fsLog, produced,
          result, nameParts, classified, parsers, created, returned, parserInput,
          analysis, restorePc, restoreOptions, machine, restoreLocals, effects,
          restoreResult, backupPc, backupCall, analyzedConfigs, backupResult,
          analysisPc, analysisCall, analysisResult>>

scanVars == <<fs, pc, options, pathsToScan, idx, configs, errors, fsLog, produced,
              result>>

classVars == <<nameParts, classified>>

factoryVars == <<parsers, created, returned>>

textVars == <<parserInput, analysis>>

restoreVars == <<restorePc, restoreOptions, machine, restoreLocals, effects,
                 restoreResult>>

backupVars == <<backupPc, backupCall, analyzedConfigs, backupResult>>

analysisVars == <<analysisPc, analysisCall, analysisResult>>

managerVars == <<restoreVars, backupVars, analysisVars>>

\* the state of the parsers and managers, which a scan leaves alone
toolVars == <<factoryVars, textVars, managerVars>>

(***************************************************************************)
(* Bounds of the model.                                                    *)
(***************************************************************************)
\* longest explicit options.paths list
MaxPaths == 2

\* longest options.excludePatterns list
MaxPatterns == 1

\* most fragments a classifier-harness file name is built from
MaxNameParts == 2

\* most ParserFactory.getParser calls
MaxGetParser == 3

\* most lines of a text handed to the parsers
MaxLines == 2

\* the lines of a git configuration the harness hands to GitParser
MaxGitLines == 3

(***************************************************************************)
(* Strings.                                                                *)
(***************************************************************************)
UpperCase == <<"A","B","C","D","E","F","G","H","I","J","K","L","M","N","O","P","Q","R","S","T","U","V","W","X","Y","Z">>

LowerCase == <<"a","b","c","d","e","f","g","h","i","j","k","l","m","n","o","p","q","r","s","t","u","v","w","x","y","z">>

Digits == <<"0","1","2","3","4","5","6","7","8","9">>

\* String.prototype.toLowerCase, one character
toLowerChar(c) ==
    IF \E k \in 1..Len(UpperCase) : UpperCase[k] = c
    THEN LowerCase[CHOOSE k \in 1..Len(UpperCase) : UpperCase[k] = c]
    ELSE c

\* String.prototype.toLowerCase
toLowerCase(s) == [k \in 1..Len(s) |-> toLowerChar(s[k])]

\* String.prototype.includes
includes(s, t) ==
    \E k \in 1..(Len(s) - Len(t) + 1) : SubSeq(s, k, k + Len(t) - 1) = t

\* String.prototype.startsWith
startsWith(s, t) == Len(s) >= Len(t) /\ SubSeq(s, 1, Len(t)) = t

\* String.prototype.slice(k) with a 0-based start
slice(s, k) == SubSeq(s, k + 1, Len(s))

\* decimal digits of a natural number, as template literals print it
RECURSIVE numberToString(_)
numberToString(n) ==
    IF n < 10 THEN <<Digits[n + 1]>>
    ELSE Append(numberToString(n \div 10), Digits[(n % 10) + 1])

\* index of the last occurrence of character c in s, 0 when there is none
lastIndexOf(s, c) ==
    IF \E k \in 1..Len(s) : s[k] = c
    THEN CHOOSE k \in 1..Len(s) : s[k] = c /\ \A m \in (k + 1)..Len(s) : s[m] # c
    ELSE 0

\* path.normalize on POSIX, for paths without "." and ".." segments:
\* runs of "/" collapse and a trailing "/" is dropped
RECURSIVE collapseSlashes(_)
collapseSlashes(s) ==
    IF Len(s) < 2 THEN s
    ELSE IF s[1] = "/" /\ s[2] = "/" THEN collapseSlashes(Tail(s))
    ELSE <<s[1]>> \o collapseSlashes(Tail(s))

dropTrailingSlash(c) ==
    IF Len(c) > 1 /\ c[Len(c)] = "/" THEN SubSeq(c, 1, Len(c) - 1) ELSE c

normalize(s) == dropTrailingSlash(collapseSlashes(s))

\* path.join(a, b)
join(a, b) == normalize(a \o <<"/">> \o b)

\* process.cwd() of the scanning process
cwd == <<"/","d">>

\* path.resolve(p): absolute paths are normalized, others are taken from cwd
resolve(p) == IF startsWith(p, <<"/">>) THEN normalize(p) ELSE join(cwd, p)

\* path.basename(p)
basename(p) == SubSeq(p, lastIndexOf(p, "/") + 1, Len(p))

\* path.dirname(p), for absolute normalized paths
dirnameOf(p, lastSlash) == IF lastSlash <= 1 THEN <<"/">> ELSE SubSeq(p, 1, lastSlash - 1)

dirname(p) == dirnameOf(p, lastIndexOf(p, "/"))

\* path.extname(p): from the last "." of the base name b, unless that "." is
\* its first character or there is none
extnameOf(b, lastDot) ==
    IF lastDot <= 1 \/ b = <<".",".">> THEN <<>> ELSE SubSeq(b, lastDot, Len(b))

extname(p) == extnameOf(basename(p), lastIndexOf(basename(p), "."))

(***************************************************************************)
(* Types and constants.                                                    *)
(***************************************************************************)
ConfigType == {"bash", "zsh", "vim", "git", "ssh", "vscode", "system", "custom"}

DEFAULT_SCAN_PATHS == <<
    <<"~","/",".","b","a","s","h","r","c">>, <<"~","/",".","b","a","s","h","_","p","r","o","f","i","l","e">>, <<"~","/",".","b","a","s","h","_","a","l","i","a","s","e","s">>, <<"~","/",".","z","s","h","r","c">>,
    <<"~","/",".","z","s","h","_","p","r","o","f","i","l","e">>, <<"~","/",".","o","h","-","m","y","-","z","s","h","/","c","u","s","t","o","m">>, <<"~","/",".","v","i","m","r","c">>, <<"~","/",".","n","v","i","m","r","c">>,
    <<"~","/",".","g","i","t","c","o","n","f","i","g">>, <<"~","/",".","g","i","t","i","g","n","o","r","e","_","g","l","o","b","a","l">>, <<"~","/",".","s","s","h","/","c","o","n","f","i","g">>,
    <<"~","/",".","s","s","h","/","k","n","o","w","n","_","h","o","s","t","s">>, <<"~","/",".","p","r","o","f","i","l","e">>, <<"~","/",".","i","n","p","u","t","r","c">>, <<"~","/",".","t","m","u","x",".","c","o","n","f">>,
    <<"~","/",".","s","c","r","e","e","n","r","c">> >>

CONFIG_TYPE_MAPPING ==
    (<<".","b","a","s","h","r","c">> :> "bash") @@ (<<".","b","a","s","h","_","p","r","o","f","i","l","e">> :> "bash") @@
    (<<".","b","a","s","h","_","a","l","i","a","s","e","s">> :> "bash") @@ (<<".","z","s","h","r","c">> :> "zsh") @@
    (<<".","z","s","h","_","p","r","o","f","i","l","e">> :> "zsh") @@ (<<".","v","i","m","r","c">> :> "vim") @@
    (<<".","n","v","i","m","r","c">> :> "vim") @@ (<<".","g","i","t","c","o","n","f","i","g">> :> "git") @@
    (<<".","g","i","t","i","g","n","o","r","e","_","g","l","o","b","a","l">> :> "git") @@ (<<"c","o","n","f","i","g">> :> "ssh") @@
    (<<"k","n","o","w","n","_","h","o","s","t","s">> :> "ssh") @@ (<<".","p","r","o","f","i","l","e">> :> "system") @@
    (<<".","i","n","p","u","t","r","c">> :> "system") @@ (<<".","t","m","u","x",".","c","o","n","f">> :> "system") @@
    (<<".","s","c","r","e","e","n","r","c">> :> "system")

MAX_FILE_SIZE == 10 * 1024 * 1024

SUPPORTED_EXTENSIONS == <<
    <<".","r","c">>, <<".","c","o","n","f">>, <<".","c","o","n","f","i","g">>, <<".","p","r","o","f","i","l","e">>, <<".","b","a","s","h","r","c">>, <<".","z","s","h","r","c">>,
    <<".","v","i","m","r","c">>, <<".","n","v","i","m","r","c">>, <<".","g","i","t","c","o","n","f","i","g">>, <<".","g","i","t","i","g","n","o","r","e">>, <<".","s","s","h">>, <<".","t","m","u","x">>,
    <<".","s","c","r","e","e","n">> >>

\* CONFIG_TYPE_MAPPING is an object literal, so it inherits the properties of
\* Object.prototype; each of these is a function
ObjectPrototypeKeys ==
    {<<"c","o","n","s","t","r","u","c","t","o","r">>, <<"t","o","S","t","r","i","n","g">>, <<"v","a","l","u","e","O","f">>, <<"h","a","s","O","w","n","P","r","o","p","e","r","t","y">>,
     <<"i","s","P","r","o","t","o","t","y","p","e","O","f">>, <<"p","r","o","p","e","r","t","y","I","s","E","n","u","m","e","r","a","b","l","e">>, <<"t","o","L","o","c","a","l","e","S","t","r","i","n","g">>}

\* the `in` operator: own and inherited properties
hasProperty(obj, key) == key \in DOMAIN obj \/ key \in ObjectPrototypeKeys

\* obj[key]: the own property, else the inherited one (a function object)
getProperty(obj, key) ==
    IF key \in DOMAIN obj THEN obj[key]
    ELSE IF key \in ObjectPrototypeKeys THEN "function"
    ELSE "undefined"

(***************************************************************************)
(* DotfileScanner.determineConfigType; "null" is the null it returns.       *)
(***************************************************************************)
\* the body of determineConfigType, for its fileName and extension
classify(fileName, extension) ==
    IF hasProperty(CONFIG_TYPE_MAPPING, fileName)
    THEN getProperty(CONFIG_TYPE_MAPPING, fileName)
    ELSE IF extension # <<>> /\ hasProperty(CONFIG_TYPE_MAPPING, extension)
    THEN getProperty(CONFIG_TYPE_MAPPING, extension)
    ELSE IF \E k \in 1..Len(SUPPORTED_EXTENSIONS) :
                includes(fileName, SUPPORTED_EXTENSIONS[k])
    THEN "custom"
    ELSE "null"

determineConfigType(filePath) == classify(basename(filePath), extname(filePath))

(***************************************************************************)
(* DotfileScanner.shouldExclude.  The pattern becomes the source of a      *)
(* regular expression with every "*" replaced by ".*"; RegExp.test looks   *)
(* for a match starting anywhere in the path.  In the source "." matches   *)
(* any character but a line terminator, an atom followed by "*" repeats,   *)
(* and every other character of the patterns used here matches itself.    *)
(***************************************************************************)
\* pattern.replace(/\*/g, '.*')
RECURSIVE replaceStars(_)
replaceStars(pattern) ==
    IF pattern = <<>> THEN <<>>
    ELSE IF Head(pattern) = "*" THEN <<".","*">> \o replaceStars(Tail(pattern))
    ELSE <<Head(pattern)>> \o replaceStars(Tail(pattern))

atomMatches(atom, c) == IF atom = "." THEN c # "\n" ELSE atom = c

\* does source[i..] match a prefix of s[j..]
RECURSIVE regexMatchHere(_, _, _, _)
regexMatchHere(source, i, s, j) ==
    IF i > Len(source) THEN TRUE
    ELSE IF i < Len(source) /\ source[i + 1] = "*"
    THEN \E k \in j..(Len(s) + 1) :
            /\ \A m \in j..(k - 1) : atomMatches(source[i], s[m])
            /\ regexMatchHere(source, i + 2, s, k)
    ELSE /\ j <= Len(s)
         /\ atomMatches(source[i], s[j])
         /\ regexMatchHere(source, i + 1, s, j + 1)

\* new RegExp(source).test(s)
regexTest(source, s) == \E j \in 1..(Len(s) + 1) : regexMatchHere(source, 1, s, j)

shouldExclude(path, excludePatterns) ==
    IF excludePatterns = <<>> THEN FALSE
    ELSE \E k \in 1..Len(excludePatterns[1]) :
            regexTest(replaceStars(excludePatterns[1][k]), path)

\* new RegExp(source) throws a SyntaxError for a group that is opened and
\* never closed
regexRejected(source) == includes(source, <<"(">>) /\ ~includes(source, <<")">>)

regexSyntaxError(source) ==
    <<"I","n","v","a","l","i","d"," ","r","e","g","u","l","a","r"," ","e","x","p","r","e","s","s","i","o","n",":"," ","/">> \o source \o <<"/",":"," ","U","n","t","e","r","m","i","n","a","t","e","d"," ","g","r","o","u","p">>

\* the patterns whose RegExp shouldExclude constructs for this path: some()
\* stops at the first pattern that matches
patternsTried(path, patterns) ==
    {k \in 1..Len(patterns) :
        \A j \in 1..(k - 1) : ~regexRejected(replaceStars(patterns[j]))
                               /\ ~regexTest(replaceStars(patterns[j]), path)}

\* shouldExclude throws: <<>>, or <<the message of the SyntaxError>>
shouldExcludeThrows(path, excludePatterns) ==
    IF excludePatterns = <<>> THEN <<>>
    ELSE IF \E k \in patternsTried(path, excludePatterns[1]) :
                regexRejected(replaceStars(excludePatterns[1][k]))
    THEN <<regexSyntaxError(replaceStars(excludePatterns[1][
              CHOOSE k \in patternsTried(path, excludePatterns[1]) :
                  regexRejected(replaceStars(excludePatterns[1][k]))]))>>
    ELSE <<>>

(***************************************************************************)
(* DotfileScanner.categorizeError                                          *)
(***************************************************************************)
\* the tests of categorizeError on the lowercased message
categorize(message) ==
    IF includes(message, <<"p","e","r","m","i","s","s","i","o","n"," ","d","e","n","i","e","d">>) \/ includes(message, <<"e","a","c","c","e","s">>)
    THEN "permission"
    ELSE IF includes(message, <<"n","o"," ","s","u","c","h"," ","f","i","l","e">>) \/ includes(message, <<"e","n","o","e","n","t">>)
    THEN "not_found"
    ELSE IF includes(message, <<"t","o","o"," ","l","a","r","g","e">>)
    THEN "size_limit"
    ELSE IF includes(message, <<"p","a","r","s","e">>) \/ includes(message, <<"s","y","n","t","a","x">>)
    THEN "parse_error"
    ELSE "unknown"

categorizeError(errorMessage) == categorize(toLowerCase(errorMessage))

(***************************************************************************)
(* DotfileScanner.resolvePath                                              *)
(***************************************************************************)
\* os.homedir(), kept by the constructor
homeDir == <<"/","h","o","m","e","/","u">>

resolvePath(path) ==
    IF startsWith(path, <<"~">>) THEN join(homeDir, slice(path, 1)) ELSE resolve(path)

(***************************************************************************)
(* The file system.  A node is a regular file, a directory or a special    *)
(* file; statErr and readErr name the error code stat and readFile or      *)
(* readdir fail with on it ("" when they succeed).  A path outside the     *)
(* domain does not exist.                                                  *)
(***************************************************************************)
File(size, content) ==
    [kind |-> "file", size |-> size, content |-> content, statErr |-> "", readErr |-> ""]

Directory ==
    [kind |-> "dir", size |-> 4096, content |-> "", statErr |-> "", readErr |-> ""]

Special ==
    [kind |-> "special", size |-> 0, content |-> "", statErr |-> "", readErr |-> ""]

\* every path a file system of the model may hold, in readdir order
Universe == <<
    <<"/","h","o","m","e","/","u">>, <<"/","h","o","m","e","/","u","/",".","b","a","s","h","r","c">>, <<"/","h","o","m","e","/","u","/",".","s","s","h">>, <<"/","h","o","m","e","/","u","/",".","s","s","h","/","c","o","n","f","i","g">>,
    <<"/","d">>, <<"/","d","/",".","v","i","m","r","c">>, <<"/","d","/","m","y",".","c","o","n","f">>, <<"/","d","/","n","o","t","e","s",".","t","x","t">>, <<"/","d","/","t","o","S","t","r","i","n","g">>,
    <<"/","d","/","b","i","g",".","c","o","n","f">>, <<"/","d","/","s","u","b">>, <<"/","d","/","s","u","b","/","c","o","n","f","i","g">>, <<"/","d","/",".","g","i","t">>, <<"/","d","/",".","g","i","t","/","c","o","n","f","i","g">>,
    <<"/","d","/","s","o","c","k">>, <<"/","d","/","l","o","c","k","e","d">>, <<"/","d","/","l","o","c","k","e","d","/",".","z","s","h","r","c">>, <<"/","d","/","s","e","c","r","e","t",".","c","o","n","f">>,
    <<"/","d","e","v","/","n","u","l","l">>, <<"/","r","o","o","t","/",".","b","a","s","h","r","c">> >>

BaseFS ==
    (<<"/","h","o","m","e","/","u">> :> Directory) @@
    (<<"/","h","o","m","e","/","u","/",".","b","a","s","h","r","c">> :> File(3, "export")) @@
    (<<"/","h","o","m","e","/","u","/",".","s","s","h">> :> Directory) @@
    (<<"/","h","o","m","e","/","u","/",".","s","s","h","/","c","o","n","f","i","g">> :> File(4, "Host")) @@
    (<<"/","d">> :> Directory) @@
    (<<"/","d","/",".","v","i","m","r","c">> :> File(2, "set")) @@
    (<<"/","d","/","m","y",".","c","o","n","f">> :> File(4, "key")) @@
    (<<"/","d","/","n","o","t","e","s",".","t","x","t">> :> File(8, "todo")) @@
    (<<"/","d","/","t","o","S","t","r","i","n","g">> :> File(1, "text")) @@
    (<<"/","d","/","b","i","g",".","c","o","n","f">> :> File(11 * 1024 * 1024, "huge")) @@
    (<<"/","d","/","s","u","b">> :> Directory) @@
    (<<"/","d","/","s","u","b","/","c","o","n","f","i","g">> :> File(5, "Host")) @@
    (<<"/","d","/",".","g","i","t">> :> Directory) @@
    (<<"/","d","/",".","g","i","t","/","c","o","n","f","i","g">> :> File(2, "core")) @@
    (<<"/","d","/","s","o","c","k">> :> Special) @@
    (<<"/","d","/","l","o","c","k","e","d">> :> [Directory EXCEPT !.readErr = "EACCES"]) @@
    (<<"/","d","/","l","o","c","k","e","d","/",".","z","s","h","r","c">> :> [File(1, "zsh") EXCEPT !.statErr = "EACCES"]) @@
    (<<"/","d","/","s","e","c","r","e","t",".","c","o","n","f">> :> [File(1, "pw") EXCEPT !.readErr = "EACCES"]) @@
    (<<"/","d","e","v","/","n","u","l","l">> :> Special) @@
    (<<"/","r","o","o","t","/",".","b","a","s","h","r","c">> :> [File(1, "root") EXCEPT !.statErr = "EACCES"])

\* p lies below directory d
isBelow(p, d) == startsWith(p, d \o <<"/">>)

\* one change to a node of a file system
Damage(f, site, how) ==
    CASE how = "missing"  -> [p \in {q \in DOMAIN f : q # site /\ ~isBelow(q, site)} |-> f[p]]
      [] how = "noStat"   -> [f EXCEPT ![site].statErr = "EACCES"]
      [] how = "noRead"   -> [f EXCEPT ![site].readErr = "EACCES"]
      [] how = "oversize" -> [f EXCEPT ![site].size = MAX_FILE_SIZE + 1]

\* the file systems scanned: the base one, one with a requested file damaged
\* in each way, and one with a walked subdirectory gone or unreadable
FileSystems ==
    {BaseFS} \cup
    {Damage(BaseFS, <<"/","h","o","m","e","/","u","/",".","b","a","s","h","r","c">>, how) :
        how \in {"missing", "noStat", "noRead", "oversize"}} \cup
    {Damage(BaseFS, <<"/","d","/","s","u","b">>, how) : how \in {"missing", "noRead"}}

\* the message of the Error a failed fs/promises call rejects with
fsErrorMessage(code, syscall, path) ==
    (CASE code = "ENOENT" -> <<"E","N","O","E","N","T",":"," ","n","o"," ","s","u","c","h"," ","f","i","l","e"," ","o","r"," ","d","i","r","e","c","t","o","r","y",","," ">>
       [] code = "EACCES" -> <<"E","A","C","C","E","S",":"," ","p","e","r","m","i","s","s","i","o","n"," ","d","e","n","i","e","d",","," ">>)
    \o syscall \o <<" ","'">> \o path \o <<"'">>

\* fs/promises stat
stat(f, path) ==
    IF path \notin DOMAIN f
    THEN [ok |-> FALSE, kind |-> "", size |-> 0,
          message |-> fsErrorMessage("ENOENT", <<"s","t","a","t">>, path)]
    ELSE IF f[path].statErr # ""
    THEN [ok |-> FALSE, kind |-> "", size |-> 0,
          message |-> fsErrorMessage(f[path].statErr, <<"s","t","a","t">>, path)]
    ELSE [ok |-> TRUE, kind |-> f[path].kind, size |-> f[path].size, message |-> <<>>]

\* fs/promises readFile(path, 'utf8')
readFile(f, path) ==
    IF path \notin DOMAIN f
    THEN [ok |-> FALSE, content |-> "",
          message |-> fsErrorMessage("ENOENT", <<"o","p","e","n">>, path)]
    ELSE IF f[path].readErr # ""
    THEN [ok |-> FALSE, content |-> "",
          message |-> fsErrorMessage(f[path].readErr, <<"o","p","e","n">>, path)]
    ELSE [ok |-> TRUE, content |-> f[path].content, message |-> <<>>]

\* the Dirents of the paths listed: the name and the kind isFile and
\* isDirectory report
dirents(f, listed) ==
    [k \in 1..Len(listed) |->
        [name |-> basename(listed[k]), kind |-> f[listed[k]].kind]]

\* the paths of the file system directly in directory path, in listing order
childrenOf(f, path) ==
    LET inDir(q) == q \in DOMAIN f /\ q # <<"/">> /\ dirname(q) = path
    IN  SelectSeq(Universe, inDir)

\* fs/promises readdir(path, {withFileTypes: true})
readdir(f, path) ==
    IF path \notin DOMAIN f
    THEN [ok |-> FALSE, entries |-> <<>>,
          message |-> fsErrorMessage("ENOENT", <<"s","c","a","n","d","i","r">>, path)]
    ELSE IF f[path].readErr # ""
    THEN [ok |-> FALSE, entries |-> <<>>,
          message |-> fsErrorMessage(f[path].readErr, <<"s","c","a","n","d","i","r">>, path)]
    ELSE [ok |-> TRUE, entries |-> dirents(f, childrenOf(f, path)), message |-> <<>>]

(***************************************************************************)
(* DotfileScanner.scanFile, scanDirectory and scanPath.  Each returns the  *)
(* Result it resolves with (success, data, the Error's message) and the    *)
(* file-system calls it made, in order; thrown says the promise rejected   *)
(* instead.                                                                *)
(***************************************************************************)
Event(op, path) == [op |-> op, path |-> path]

Success(data, log) ==
    [success |-> TRUE, data |-> data, message |-> <<>>, log |-> log, thrown |-> FALSE]

Failure(message, log) ==
    [success |-> FALSE, data |-> <<>>, message |-> message, log |-> log, thrown |-> FALSE]

Thrown(message, log) ==
    [success |-> FALSE, data |-> <<>>, message |-> message, log |-> log, thrown |-> TRUE]

\* !!options.includeHidden
includeHiddenSet(opts) == opts.includeHidden # <<>> /\ opts.includeHidden[1]

\* options.maxFileSize || MAX_FILE_SIZE: undefined and 0 are both falsy
sizeLimit(opts) ==
    IF opts.maxFileSize # <<>> /\ opts.maxFileSize[1] # 0
    THEN opts.maxFileSize[1]
    ELSE MAX_FILE_SIZE

DotfileConfig(filePath, configType, content, size) ==
    [path |-> filePath, type |-> configType, content |-> content, size |-> size,
     dependencies |-> <<>>, isActive |-> TRUE, backupStatus |-> "not_backed_up"]

\* the calls of a scanFile invocation up to the size check, and with the read
statCalls(filePath) == <<Event("scanFile", filePath), Event("stat", filePath)>>

readCalls(filePath) == Append(statCalls(filePath), Event("readFile", filePath))

\* scanFile with a catch block that reports a failed stat or read as an empty
\* success
scanFileSwallowsErrors(filePath, opts, stats, content, configType) ==
    IF ~stats.ok THEN Success(<<>>, statCalls(filePath))
    ELSE IF stats.size > sizeLimit(opts)
    THEN Failure(<<"F","i","l","e"," ","t","o","o"," ","l","a","r","g","e",":"," ">> \o numberToString(stats.size) \o <<" ","b","y","t","e","s">>,
                 statCalls(filePath))
    ELSE IF ~content.ok THEN Success(<<>>, readCalls(filePath))
    ELSE IF configType = "null" THEN Success(<<>>, readCalls(filePath))
    ELSE Success(<<DotfileConfig(filePath, configType, content.content, stats.size)>>,
                 readCalls(filePath))

\* the body of scanFile, for what stat, readFile and determineConfigType
\* return; content is looked at only once the size check has passed
scanFileSteps(filePath, opts, stats, content, configType) ==
    IF ~stats.ok THEN Failure(stats.message, statCalls(filePath))
    ELSE IF stats.size > sizeLimit(opts)
    THEN Failure(<<"F","i","l","e"," ","t","o","o"," ","l","a","r","g","e",":"," ">> \o numberToString(stats.size) \o <<" ","b","y","t","e","s">>,
                 statCalls(filePath))
    ELSE IF ~content.ok THEN Failure(content.message, readCalls(filePath))
    ELSE IF configType = "null" THEN Success(<<>>, readCalls(filePath))
    ELSE Success(<<DotfileConfig(filePath, configType, content.content, stats.size)>>,
                 readCalls(filePath))

scanFile(f, filePath, opts) ==
    scanFileSteps(filePath, opts, stat(f, filePath), readFile(f, filePath),
                  determineConfigType(filePath))

\* line 175 with the flag's test inverted
hiddenSkippedInverted(opts, entryName) ==
    includeHiddenSet(opts) /\ startsWith(entryName, <<".">>)

\* line 175: a hidden entry is skipped unless hidden files were asked for
hiddenSkipped(opts, entryName) ==
    ~includeHiddenSet(opts) /\ startsWith(entryName, <<".">>)

\* what the walk has gathered: the configs pushed and the calls made
Walked(data, log) == [data |-> data, log |-> log, threw |-> <<>>]

\* the loop was left by an exception with this message
WalkThrew(message, log) == [data |-> <<>>, log |-> log, threw |-> <<message>>]

\* lines 186-188 with a failed Result pushed as a record of the path it
\* was for
pushFailureAsRecord(r) ==
    Walked(IF r.success THEN r.data
           ELSE <<DotfileConfig(r.log[1].path, "custom", <<>>, 0)>>, r.log)

\* lines 186-188 and 191-193: the configs of a successful Result are pushed,
\* a failure is dropped
pushIfSuccess(r) == Walked(IF r.success THEN r.data ELSE <<>>, r.log)

thenWalked(first, rest) ==
    [data |-> first.data \o rest.data, log |-> first.log \o rest.log,
     threw |-> rest.threw]

RECURSIVE scanDirectory(_, _, _)
RECURSIVE scanEntries(_, _, _, _, _)
RECURSIVE scanRest(_, _, _, _, _, _)

\* one iteration of the for..of loop of scanDirectory
scanEntry(f, fullPath, entry, opts) ==
    IF hiddenSkipped(opts, entry.name)
    THEN Walked(<<>>, <<Event("skipHidden", fullPath)>>)
    ELSE IF shouldExcludeThrows(fullPath, opts.excludePatterns) # <<>>
    THEN WalkThrew(shouldExcludeThrows(fullPath, opts.excludePatterns)[1], <<>>)
    ELSE IF shouldExclude(fullPath, opts.excludePatterns)
    THEN Walked(<<>>, <<Event("skipExcluded", fullPath)>>)
    ELSE IF entry.kind = "file" THEN pushIfSuccess(scanFile(f, fullPath, opts))
    ELSE IF entry.kind = "dir" THEN pushIfSuccess(scanDirectory(f, fullPath, opts))
    ELSE Walked(<<>>, <<>>)

\* the for..of loop of scanDirectory from entry k on
scanEntries(f, dirPath, entries, k, opts) ==
    IF k > Len(entries) THEN Walked(<<>>, <<>>)
    ELSE scanRest(f, dirPath, entries, k, opts,
                  scanEntry(f, join(dirPath, entries[k].name), entries[k], opts))

\* the loop after iteration k: an exception of the iteration ends it
scanRest(f, dirPath, entries, k, opts, first) ==
    IF first.threw # <<>> THEN first
    ELSE thenWalked(first, scanEntries(f, dirPath, entries, k + 1, opts))

\* scanDirectory returns the configs its loop gathered
walkedResult(called, walked) ==
    IF walked.threw # <<>> THEN Failure(walked.threw[1], called \o walked.log)
    ELSE Success(walked.data, called \o walked.log)

\* the body of scanDirectory, for what readdir returns
scanListing(f, dirPath, opts, listing) ==
    IF ~listing.ok THEN Failure(listing.message, <<Event("readdir", dirPath)>>)
    ELSE walkedResult(<<Event("readdir", dirPath)>>,
                      scanEntries(f, dirPath, listing.entries, 1, opts))

scanDirectory(f, dirPath, opts) == scanListing(f, dirPath, opts, readdir(f, dirPath))

\* the Result of the scanFile or scanDirectory that scanPath returns, after
\* scanPath's own stat call
afterStat(path, r) == [r EXCEPT !.log = <<Event("stat", path)>> \o r.log]

\* scanPath with its catch block rethrowing
scanPathRethrows(f, path, opts, stats) ==
    IF ~stats.ok THEN Thrown(stats.message, <<Event("stat", path)>>)
    ELSE IF stats.kind = "file" THEN afterStat(path, scanFile(f, path, opts))
    ELSE IF stats.kind = "dir" THEN afterStat(path, scanDirectory(f, path, opts))
    ELSE Failure(<<"P","a","t","h"," ","i","s"," ","n","e","i","t","h","e","r"," ","f","i","l","e"," ","n","o","r"," ","d","i","r","e","c","t","o","r","y",":"," ">> \o path,
                 <<Event("stat", path)>>)

\* scanPath applying the hidden-file policy and the exclude patterns to the
\* requested path
scanPathFiltersRequested(f, path, opts, stats) ==
    IF hiddenSkipped(opts, basename(path))
    THEN Success(<<>>, <<Event("skipHidden", path)>>)
    ELSE IF shouldExclude(path, opts.excludePatterns)
    THEN Success(<<>>, <<Event("skipExcluded", path)>>)
    ELSE IF ~stats.ok THEN Failure(stats.message, <<Event("stat", path)>>)
    ELSE IF stats.kind = "file" THEN afterStat(path, scanFile(f, path, opts))
    ELSE IF stats.kind = "dir" THEN afterStat(path, scanDirectory(f, path, opts))
    ELSE Failure(<<"P","a","t","h"," ","i","s"," ","n","e","i","t","h","e","r"," ","f","i","l","e"," ","n","o","r"," ","d","i","r","e","c","t","o","r","y",":"," ">> \o path,
                 <<Event("stat", path)>>)

\* the body of scanPath, for what stat returns
scanPathSteps(f, path, opts, stats) ==
    IF ~stats.ok THEN Failure(stats.message, <<Event("stat", path)>>)
    ELSE IF stats.kind = "file" THEN afterStat(path, scanFile(f, path, opts))
    ELSE IF stats.kind = "dir" THEN afterStat(path, scanDirectory(f, path, opts))
    ELSE Failure(<<"P","a","t","h"," ","i","s"," ","n","e","i","t","h","e","r"," ","f","i","l","e"," ","n","o","r"," ","d","i","r","e","c","t","o","r","y",":"," ">> \o path,
                 <<Event("stat", path)>>)

scanPath(f, path, opts) == scanPathSteps(f, path, opts, stat(f, path))

(***************************************************************************)
(* ParserFactory.  A parser instance is its position in created, which     *)
(* tells one instance from another of the same class.                      *)
(***************************************************************************)
\* new BashParser(), new VimParser(), new GitParser(), new SimpleParser(t):
\* the class and the configType handed to the ConfigParser constructor
Parser(class, configType) == [class |-> class, configType |-> configType]

\* ParserFactory.createParser
createParser(configType) ==
    CASE configType \in {"bash", "zsh"} -> Parser("BashParser", "bash")
      [] configType = "vim"    -> Parser("VimParser", "vim")
      [] configType = "git"    -> Parser("GitParser", "git")
      [] configType = "ssh"    -> Parser("SimpleParser", "ssh")
      [] configType = "vscode" -> Parser("SimpleParser", "vscode")
      [] configType = "system" -> Parser("SimpleParser", "system")
      [] configType = "custom" -> Parser("SimpleParser", "custom")
      [] OTHER                 -> Parser("SimpleParser", "custom")

\* the Map after parsers.set(key, value)
MapSet(map, key, value) ==
    [k \in DOMAIN map \cup {key} |-> IF k = key THEN value ELSE map[k]]

\* what a getParser call leaves: the Map, the instances constructed and the
\* instance returned
Got(map, made, instance) == [parsers |-> map, created |-> made, instance |-> instance]

\* getParser constructing a parser on every call
getParserAlwaysCreates(map, made, configType) ==
    Got(MapSet(map, configType, Len(made) + 1),
        Append(made, [parser |-> createParser(configType), for |-> configType]),
        Len(made) + 1)

\* ParserFactory.getParser
getParser(map, made, configType) ==
    IF configType \notin DOMAIN map
    THEN Got(MapSet(map, configType, Len(made) + 1),
             Append(made, [parser |-> createParser(configType), for |-> configType]),
             Len(made) + 1)
    ELSE Got(map, made, map[configType])

\* a caller asks for the parser of a kind
GetParser ==
    /\ Len(returned) < MaxGetParser
    /\ \E configType \in ConfigType :
          /\ parsers' = getParser(parsers, created, configType).parsers
          /\ created' = getParser(parsers, created, configType).created
          /\ returned' = Append(returned,
                 [configType |-> configType,
                  instance |-> getParser(parsers, created, configType).instance])
    /\ UNCHANGED <<scanVars, classVars, textVars, managerVars>>

\* the state of the parsers and managers before anything has used them
ToolsIdle ==
    /\ parsers = << >>
    /\ created = <<>>
    /\ returned = <<>>
    /\ parserInput = <<>>
    /\ analysis = <<>>
    /\ restorePc = "idle" /\ restoreOptions = <<>> /\ machine = <<>>
    /\ restoreLocals = <<>> /\ effects = <<>> /\ restoreResult = <<>>
    /\ backupPc = "idle" /\ backupCall = <<>> /\ analyzedConfigs = <<>>
    /\ backupResult = <<>>
    /\ analysisPc = "idle" /\ analysisCall = <<>> /\ analysisResult = <<>>

(***************************************************************************)
(* DotfileScanner.scan.  Every await of scanPath ends one step.            *)
(***************************************************************************)
NoOptions ==
    [paths |-> <<>>, includeHidden |-> <<>>, maxFileSize |-> <<>>,
     excludePatterns |-> <<>>]

SeqsUpTo(S, n) == UNION {[1..k -> S] : k \in 0..n}

\* an optional value: undefined, or one of S
Optional(S) == {<<>>} \cup {<<v>> : v \in S}

\* the paths callers ask for: home-relative, absolute and relative ones
RequestedPaths ==
    {<<"~","/",".","b","a","s","h","r","c">>, <<"/","d">>, <<"/","t","m","p","/","E","A","C","C","E","S">>, <<"/","d","e","v","/","n","u","l","l">>, <<"n","o","t","e","s",".","t","x","t">>}

\* the paths the directory-walk specification asks for, one per scan
WalkRoots == {<<"/","d">>, <<"~">>, <<"~","/",".","s","s","h">>, <<"/","d","/",".","g","i","t">>, <<"/","d","/",".","v","i","m","r","c">>}

ExcludePatterns == {<<"*",".","c","o","n","f","i","g">>, <<".","c","o","n","f">>, <<"s","u","b","/","*">>, <<"v","i","m","r","c">>, <<"(">>}

ScanOptionSpace ==
    [paths           : Optional(SeqsUpTo(RequestedPaths, MaxPaths)),
     includeHidden   : {<<>>, <<TRUE>>},
     maxFileSize     : Optional({0, 5}),
     excludePatterns : {<<>>}]

WalkOptionSpace ==
    [paths           : {<<<<root>>>> : root \in WalkRoots},
     includeHidden   : Optional(BOOLEAN),
     maxFileSize     : Optional({0, 5}),
     excludePatterns : Optional(SeqsUpTo(ExcludePatterns, MaxPatterns))]

\* result.error.name: the constructor of RegExp throws a SyntaxError, every
\* other error of a scan is an Error
errorName(message) ==
    IF startsWith(message, <<"I","n","v","a","l","i","d"," ","r","e","g","u","l","a","r"," ","e","x","p","r","e","s","s","i","o","n">>) THEN "SyntaxError" ELSE "Error"

ScanError(path, message) ==
    [path |-> path, message |-> message, type |-> categorizeError(message),
     name |-> errorName(message)]

\* the metadata with totalFiles counting the configs found
ScanMetadataCountsFound(paths, found) ==
    [totalFiles |-> Len(found), validConfigs |-> Len(found)]

\* duration, startTime and endTime are clock readings, left out
ScanMetadata(paths, found) ==
    [totalFiles |-> Len(paths), validConfigs |-> Len(found)]

\* scan is called: lines 35-41
Start(opts) ==
    /\ pc = "idle"
    /\ options' = opts
    /\ pathsToScan' = IF opts.paths # <<>> THEN opts.paths[1] ELSE DEFAULT_SCAN_PATHS
    /\ errors' = <<>>
    /\ configs' = <<>>
    /\ produced' = <<>>
    /\ idx' = 1
    /\ pc' = "loop"
    /\ UNCHANGED <<fs, fsLog, result, classVars, toolVars>>

StartScan == \E opts \in ScanOptionSpace : Start(opts)

StartWalk == \E opts \in WalkOptionSpace : Start(opts)

\* lines 47-57: the Result of scanPath for resolvedPath is folded into the
\* scan; a rejection of scanPath is caught by scan's catch block, which
\* returns the failure
Fold(resolvedPath, r) ==
    /\ fsLog' = fsLog \o r.log
    /\ produced' = Append(produced, IF r.success THEN Len(r.data) ELSE 0)
    /\ IF r.thrown
       THEN /\ result' = <<[success |-> FALSE, error |-> r.message]>>
            /\ pc' = "done"
            /\ UNCHANGED <<configs, errors, idx>>
       ELSE /\ configs' = IF r.success THEN configs \o r.data ELSE configs
            /\ errors' = IF r.success THEN errors
                         ELSE Append(errors, ScanError(resolvedPath, r.message))
            /\ idx' = idx + 1
            /\ UNCHANGED <<result, pc>>

\* one iteration of the loop over pathsToScan
ScanPath ==
    /\ pc = "loop"
    /\ idx <= Len(pathsToScan)
    /\ Fold(resolvePath(pathsToScan[idx]),
            scanPath(fs, resolvePath(pathsToScan[idx]), options))
    /\ UNCHANGED <<fs, options, pathsToScan, classVars, toolVars>>

\* the loop is over: the metadata is built and the result returned
Finish ==
    /\ pc = "loop"
    /\ idx > Len(pathsToScan)
    /\ result' = <<[success |-> TRUE,
                    data |-> [configs |-> configs,
                              metadata |-> ScanMetadata(pathsToScan, configs),
                              errors |-> errors]]>>
    /\ pc' = "done"
    /\ UNCHANGED <<fs, options, pathsToScan, idx, configs, errors, fsLog, produced,
                   classVars, toolVars>>

(***************************************************************************)
(* The classifier alone: a file name is put together from fragments and    *)
(* determineConfigType is applied to a path with that name.                *)
(***************************************************************************)
NameFragments ==
    {<<".">>, <<"a">>, <<"r","c">>, <<".","b","a","s","h","r","c">>, <<"c","o","n","f","i","g">>, <<".","c","o","n","f">>, <<".","t","m","u","x">>, <<"t","o","S","t","r","i","n","g">>,
     <<"t","x","t">>}

RECURSIVE concat(_)
concat(parts) == IF parts = <<>> THEN <<>> ELSE Head(parts) \o concat(Tail(parts))

\* the file name the fragments spell
harnessName == concat(nameParts)

AddNamePart ==
    /\ classified = <<>>
    /\ Len(nameParts) < MaxNameParts
    /\ \E part \in NameFragments : nameParts' = Append(nameParts, part)
    /\ UNCHANGED <<classified, scanVars, toolVars>>

Classify ==
    /\ classified = <<>>
    /\ nameParts # <<>>
    /\ classified' = <<determineConfigType(join(<<"/","d">>, harnessName))>>
    /\ UNCHANGED <<nameParts, scanVars, toolVars>>

(***************************************************************************)
(* Specifications.                                                         *)
(***************************************************************************)
Init ==
    /\ fs \in FileSystems
    /\ pc = "idle"
    /\ options = NoOptions
    /\ pathsToScan = <<>>
    /\ idx = 1
    /\ configs = <<>>
    /\ errors = <<>>
    /\ fsLog = <<>>
    /\ produced = <<>>
    /\ result = <<>>
    /\ nameParts = <<>>
    /\ classified = <<>>
    /\ ToolsIdle

InitClassify ==
    /\ fs = BaseFS
    /\ pc = "idle"
    /\ options = NoOptions
    /\ pathsToScan = <<>>
    /\ idx = 1
    /\ configs = <<>>
    /\ errors = <<>>
    /\ fsLog = <<>>
    /\ produced = <<>>
    /\ result = <<>>
    /\ nameParts = <<>>
    /\ classified = <<>>
    /\ ToolsIdle

Next == StartScan \/ ScanPath \/ Finish

NextWalk == StartWalk \/ ScanPath \/ Finish

NextClassify == AddNamePart \/ Classify

NextFactory == GetParser

\* scans of lists of requested paths
Spec == Init /\ [][Next]_vars

\* scans of one requested path, with every option
SpecWalk == Init /\ [][NextWalk]_vars

\* the type classifier on file names
SpecClassify == InitClassify /\ [][NextClassify]_vars

\* calls of the parser factory
SpecFactory == InitClassify /\ [][NextFactory]_vars

(***************************************************************************)
(* The loop of scan as a function of the list of requested paths, for      *)
(* comparing the scans of two lists on one file system.                    *)
(***************************************************************************)
Range(s) == {s[k] : k \in 1..Len(s)}

\* what scanPath returns for each requested path
PathResults(f, opts, paths) ==
    [p \in Range(paths) |-> scanPath(f, resolvePath(p), opts)]

Gathered(found, failed) == [configs |-> found, errors |-> failed]

\* lines 47-57, for the Result r of requested path p
foldResult(p, r, rest) ==
    Gathered((IF r.success THEN r.data ELSE <<>>) \o rest.configs,
             (IF r.success THEN <<>> ELSE <<ScanError(resolvePath(p), r.message)>>)
                 \o rest.errors)

RECURSIVE scanLoopStopsAtFailure(_, _)
\* the loop of scan leaving at the first path that failed
scanLoopStopsAtFailure(paths, results) ==
    IF paths = <<>> THEN Gathered(<<>>, <<>>)
    ELSE IF ~results[Head(paths)].success
    THEN foldResult(Head(paths), results[Head(paths)], Gathered(<<>>, <<>>))
    ELSE foldResult(Head(paths), results[Head(paths)],
                    scanLoopStopsAtFailure(Tail(paths), results))

RECURSIVE scanLoop(_, _)
\* lines 44-58: the configs and errors the loop over paths gathers
scanLoop(paths, results) ==
    IF paths = <<>> THEN Gathered(<<>>, <<>>)
    ELSE foldResult(Head(paths), results[Head(paths)], scanLoop(Tail(paths), results))

\* lines 60-76: the ScanResult for what the loop gathered
ScanResultOf(paths, gathered) ==
    [configs |-> gathered.configs,
     metadata |-> ScanMetadata(paths, gathered.configs),
     errors |-> gathered.errors]

(***************************************************************************)
(* Strings, as the format parsers use them.                                *)
(***************************************************************************)
\* String.prototype.endsWith
endsWith(s, t) == Len(s) >= Len(t) /\ SubSeq(s, Len(s) - Len(t) + 1, Len(s)) = t

\* t occurs in s at position i
occursAt(s, i, t) == i + Len(t) - 1 <= Len(s) /\ SubSeq(s, i, i + Len(t) - 1) = t

\* String.prototype.indexOf, 1-based; 0 when t does not occur
indexOf(s, t) ==
    IF includes(s, t)
    THEN CHOOSE k \in 1..Len(s) :
            occursAt(s, k, t) /\ \A j \in 1..(k - 1) : ~occursAt(s, j, t)
    ELSE 0

\* the backtick character, which a TLA+ string cannot hold, as one element
\* of a string
Backtick == "backtick"

\* the characters \s matches, of those the texts here are written with
isSpace(c) == c \in {" ", "\t"}

\* the characters \w matches
isWord(c) ==
    \/ \E k \in 1..Len(UpperCase) : UpperCase[k] = c
    \/ \E k \in 1..Len(LowerCase) : LowerCase[k] = c
    \/ \E k \in 1..Len(Digits) : Digits[k] = c
    \/ c = "_"

\* the first position from i on that does not hold a c with skip(c):
\* where a greedy \s* or \w* that starts at i ends
skipWhile(s, i, skip(_)) ==
    CHOOSE j \in i..(Len(s) + 1) :
        /\ j = Len(s) + 1 \/ ~skip(s[j])
        /\ \A m \in i..(j - 1) : skip(s[m])

\* the last position down from i that does not hold a space
RECURSIVE skipSpacesBack(_, _)
skipSpacesBack(s, i) ==
    IF i >= 1 /\ isSpace(s[i]) THEN skipSpacesBack(s, i - 1) ELSE i

\* String.prototype.trim
trim(s) == SubSeq(s, skipWhile(s, 1, isSpace), skipSpacesBack(s, Len(s)))

\* how many times character c occurs in s: s.split(c).length - 1
occurrences(s, c) == Cardinality({k \in 1..Len(s) : s[k] = c})

\* content.split('\n'), from position i on with the line begun at from
RECURSIVE splitFrom(_, _, _)
splitFrom(s, from, i) ==
    IF i > Len(s) THEN <<SubSeq(s, from, Len(s))>>
    ELSE IF s[i] = "\n" THEN <<SubSeq(s, from, i - 1)>> \o splitFrom(s, i + 1, i + 1)
    ELSE splitFrom(s, from, i + 1)

splitLines(s) == splitFrom(s, 1, 1)

\* the elements of a sequence of sequences, in order
RECURSIVE flat(_)
flat(parts) == IF parts = <<>> THEN <<>> ELSE Head(parts) \o flat(Tail(parts))

\* `Line ${lineNum}: ${what}`
lineMessage(lineNum, what) == <<"L","i","n","e"," ">> \o numberToString(lineNum) \o <<":"," ">> \o what

\* the message when the test holds, nothing when it does not
pushIf(test, message) == IF test THEN <<message>> ELSE <<>>

(***************************************************************************)
(* validate of the format parsers.                                         *)
(***************************************************************************)
\* the ValidationResult with isValid also false when there are warnings
ValidationResultCountsWarnings(errs, warnings, suggestions) ==
    [isValid |-> Len(errs) = 0 /\ Len(warnings) = 0, errors |-> errs,
     warnings |-> warnings, suggestions |-> suggestions]

\* { isValid: errors.length === 0, errors, warnings, suggestions }
ValidationResult(errs, warnings, suggestions) ==
    [isValid |-> Len(errs) = 0, errors |-> errs, warnings |-> warnings,
     suggestions |-> suggestions]

\* BashParser.validate, lines 161-172: the errors of one line
bashLineErrors(line, lineNum) ==
    pushIf(includes(line, <<"$","(","(">>) /\ ~includes(line, <<")",")">>),
           lineMessage(lineNum, <<"U","n","c","l","o","s","e","d"," ","a","r","i","t","h","m","e","t","i","c"," ","e","x","p","a","n","s","i","o","n">>))
    \o pushIf(includes(line, <<"$","{">>) /\ ~includes(line, <<"}">>),
              lineMessage(lineNum, <<"U","n","c","l","o","s","e","d"," ","v","a","r","i","a","b","l","e"," ","e","x","p","a","n","s","i","o","n">>))
    \o pushIf(includes(line, <<Backtick>>) /\ occurrences(line, Backtick) % 2 # 0,
              lineMessage(lineNum, <<"U","n","c","l","o","s","e","d"," ","c","o","m","m","a","n","d"," ","s","u","b","s","t","i","t","u","t","i","o","n">>))

\* lines 175-181: the warnings of one line
bashLineWarnings(line, lineNum) ==
    pushIf(includes(line, <<"r","m"," ","-","r","f">>) /\ ~includes(line, <<"$","H","O","M","E">>),
           lineMessage(lineNum, <<"D","a","n","g","e","r","o","u","s"," ","r","m"," ","-","r","f"," ","c","o","m","m","a","n","d"," ","w","i","t","h","o","u","t"," ","p","a","t","h"," ","v","a","l","i","d","a","t","i","o","n">>))
    \o pushIf(includes(line, <<"s","u","d","o">>) /\ ~includes(line, <<"e","c","h","o">>),
              lineMessage(lineNum, <<"S","u","d","o"," ","c","o","m","m","a","n","d"," ","m","a","y"," ","r","e","q","u","i","r","e"," ","p","a","s","s","w","o","r","d"," ","i","n","p","u","t">>))

\* lines 184-190: the suggestions of one line
bashLineSuggestions(line, lineNum) ==
    pushIf(includes(line, <<"e","x","p","o","r","t">>) /\ includes(line, <<"=">>) /\ ~includes(line, <<"\"">>),
           lineMessage(lineNum, <<"C","o","n","s","i","d","e","r"," ","q","u","o","t","i","n","g"," ","v","a","r","i","a","b","l","e"," ","v","a","l","u","e","s">>))
    \o pushIf(includes(line, <<"c","d">>) /\ ~includes(line, <<"|","|">>),
              lineMessage(lineNum, <<"C","o","n","s","i","d","e","r"," ","e","r","r","o","r"," ","h","a","n","d","l","i","n","g"," ","f","o","r"," ","c","d"," ","c","o","m","m","a","n","d">>))

bashValidateLines(lines) ==
    ValidationResult(
        flat([k \in 1..Len(lines) |-> bashLineErrors(lines[k], k)]),
        flat([k \in 1..Len(lines) |-> bashLineWarnings(lines[k], k)]),
        flat([k \in 1..Len(lines) |-> bashLineSuggestions(lines[k], k)]))

\* BashParser.validate
BashParser_validate(text) == bashValidateLines(splitLines(text))

\* line.match(/^[^=]+\s*=\s*.+$/): the "=" matched is the first one of the
\* line, with a character before it and one after it
gitKeyValueMatch(firstEquals, length) == firstEquals > 1 /\ firstEquals < length

\* GitParser.validate, lines 108-115: the errors of one line
gitLineErrors(line, lineNum) ==
    pushIf(includes(line, <<"=">>) /\ ~gitKeyValueMatch(indexOf(line, <<"=">>), Len(line)),
           lineMessage(lineNum, <<"I","n","v","a","l","i","d"," ","k","e","y","-","v","a","l","u","e"," ","f","o","r","m","a","t">>))
    \o pushIf(startsWith(line, <<"[">>) /\ ~endsWith(line, <<"]">>),
              lineMessage(lineNum, <<"U","n","c","l","o","s","e","d"," ","s","e","c","t","i","o","n"," ","h","e","a","d","e","r">>))

\* lines 118-124: the suggestions of one line
gitLineSuggestions(line, lineNum) ==
    pushIf(includes(line, <<"u","s","e","r",".","n","a","m","e">>) /\ ~includes(line, <<"u","s","e","r",".","e","m","a","i","l">>),
           lineMessage(lineNum, <<"C","o","n","s","i","d","e","r"," ","s","e","t","t","i","n","g"," ","u","s","e","r",".","e","m","a","i","l"," ","a","l","o","n","g"," ","w","i","t","h"," ","u","s","e","r",".","n","a","m","e">>))
    \o pushIf(/\ includes(line, <<"c","o","r","e",".","e","d","i","t","o","r">>) /\ includes(line, <<"v","i","m">>)
              /\ ~includes(line, <<"n","a","n","o">>),
              lineMessage(lineNum,
                  <<"C","o","n","s","i","d","e","r"," ","u","s","i","n","g"," ","n","a","n","o"," ","f","o","r"," ","c","o","r","e",".","e","d","i","t","o","r"," ","i","f"," ","v","i","m"," ","i","s"," ","n","o","t"," ","a","v","a","i","l","a","b","l","e">>))

gitValidateLines(lines) ==
    ValidationResult(
        flat([k \in 1..Len(lines) |-> gitLineErrors(lines[k], k)]),
        <<>>,
        flat([k \in 1..Len(lines) |-> gitLineSuggestions(lines[k], k)]))

\* GitParser.validate
GitParser_validate(text) == gitValidateLines(splitLines(text))

\* VimParser.validate, lines 114-121: the warnings of one line
vimLineWarnings(line, lineNum) ==
    pushIf(/\ includes(line, <<"m","a","p">>) /\ ~includes(line, <<"n","o","r","e","m","a","p">>)
           /\ includes(line, <<"<","l","e","a","d","e","r",">">>),
           lineMessage(lineNum, <<"C","o","n","s","i","d","e","r"," ","u","s","i","n","g"," ","n","o","r","e","m","a","p"," ","f","o","r"," ","l","e","a","d","e","r"," ","k","e","y"," ","m","a","p","p","i","n","g","s">>))
    \o pushIf(includes(line, <<"P","l","u","g">>) /\ ~includes(line, <<"c","a","l","l"," ","p","l","u","g","#","b","e","g","i","n">>),
              lineMessage(lineNum,
                  <<"P","l","u","g","i","n"," ","w","i","t","h","o","u","t"," ","p","l","u","g","#","b","e","g","i","n","(",")"," ","-"," ","e","n","s","u","r","e"," ","v","i","m","-","p","l","u","g"," ","i","s"," ","i","n","s","t","a","l","l","e","d">>))

\* lines 118-127: the suggestions of one line
vimLineSuggestions(line, lineNum) ==
    pushIf(includes(line, <<"s","e","t">>) /\ includes(line, <<"=">>) /\ ~includes(line, <<"\"">>),
           lineMessage(lineNum, <<"C","o","n","s","i","d","e","r"," ","q","u","o","t","i","n","g"," ","s","t","r","i","n","g"," ","v","a","l","u","e","s"," ","i","n"," ","s","e","t"," ","c","o","m","m","a","n","d","s">>))
    \o pushIf(includes(line, <<"c","o","l","o","r","s","c","h","e","m","e">>) /\ ~includes(line, <<"t","r","y">>),
              lineMessage(lineNum, <<"C","o","n","s","i","d","e","r"," ","w","r","a","p","p","i","n","g"," ","c","o","l","o","r","s","c","h","e","m","e"," ","i","n"," ","t","r","y","-","c","a","t","c","h">>))

vimValidateLines(lines) ==
    ValidationResult(
        <<>>,
        flat([k \in 1..Len(lines) |-> vimLineWarnings(lines[k], k)]),
        flat([k \in 1..Len(lines) |-> vimLineSuggestions(lines[k], k)]))

\* VimParser.validate
VimParser_validate(text) == vimValidateLines(splitLines(text))

\* SimpleParser.validate
SimpleParser_validate(text) ==
    [isValid |-> TRUE, errors |-> <<>>, warnings |-> <<>>, suggestions |-> <<>>]

(***************************************************************************)
(* BashParser.parse.  A value of the variables mapping is its kind and its *)
(* text: the string itself, "true" or "false", or the digits of a number.  *)
(***************************************************************************)
\* String.prototype.charAt, 1-based
charAt(s, i) == IF i \in 1..Len(s) THEN s[i] ELSE ""

isUpper(c) == \E k \in 1..Len(UpperCase) : UpperCase[k] = c

isDigit(c) == \E k \in 1..Len(Digits) : Digits[k] = c

\* [A-Z0-9_]
isNameChar(c) == isUpper(c) \/ isDigit(c) \/ c = "_"

notSpace(c) == ~isSpace(c)

Value(kind, text) == [kind |-> kind, text |-> text]

\* the value of a string of decimal digits
RECURSIVE parseDigits(_, _)
parseDigits(s, acc) ==
    IF s = <<>> THEN acc
    ELSE parseDigits(Tail(s),
             10 * acc + ((CHOOSE k \in 1..Len(Digits) : Digits[k] = Head(s)) - 1))

\* !isNaN(Number(trimmed)), for the values the texts here hold: a string of
\* decimal digits is a number, every other is not
isNumeric(s) == s # <<>> /\ \A k \in 1..Len(s) : isDigit(s[k])

\* BashParser.parseValue on the trimmed value
parseTrimmed(trimmed) ==
    IF startsWith(trimmed, <<"\"">>) /\ endsWith(trimmed, <<"\"">>)
    THEN Value("string", SubSeq(trimmed, 2, Len(trimmed) - 1))
    ELSE IF startsWith(trimmed, <<"'">>) /\ endsWith(trimmed, <<"'">>)
    THEN Value("string", SubSeq(trimmed, 2, Len(trimmed) - 1))
    ELSE IF trimmed = <<"t","r","u","e">> \/ trimmed = <<"f","a","l","s","e">>
    THEN Value("boolean", trimmed)
    ELSE IF isNumeric(trimmed)
    THEN Value("number", numberToString(parseDigits(trimmed, 0)))
    ELSE Value("string", trimmed)

\* BashParser.parseValue
parseValue(value) == parseTrimmed(trim(value))

\* what a line of the text is taken for
Skipped == [what |-> "none", name |-> <<>>, value |-> Value("string", <<>>)]

Taken(what, name, value) == [what |-> what, name |-> name, value |-> value]

\* /^([A-Z_][A-Z0-9_]*)\s*=\s*(.+)$/ with the "=" looked for at equals,
\* after the name and the spaces that follow it
varMatch(line, equals) ==
    /\ isUpper(charAt(line, 1)) \/ charAt(line, 1) = "_"
    /\ charAt(line, equals) = "="
    /\ skipWhile(line, equals + 1, isSpace) <= Len(line)

varName(line, nameEnd) == SubSeq(line, 1, nameEnd - 1)

varValue(line, equals) == SubSeq(line, skipWhile(line, equals + 1, isSpace), Len(line))

\* /^(source|\.)\s+(.+)$/ with the directive ending at last
importMatch(line, last) ==
    /\ last > 0
    /\ isSpace(charAt(line, last + 1))
    /\ skipWhile(line, last + 1, isSpace) <= Len(line)

\* where the directive of an import line ends; 0 when there is none
directiveEnd(line) ==
    IF startsWith(line, <<"s","o","u","r","c","e">>) THEN 6 ELSE IF startsWith(line, <<".">>) THEN 1 ELSE 0

\* importMatch[2].replace(/['"]/g, '')
importTarget(line, last) ==
    SelectSeq(SubSeq(line, skipWhile(line, last + 1, isSpace), Len(line)),
              LAMBDA c : c \notin {"'", "\""})

\* /^(\w+)\s*\(\s*\)\s*\{/ with the name ending before nameEnd and the "("
\* looked for at open
funcMatch(line, nameEnd, open) ==
    /\ nameEnd > 1
    /\ charAt(line, open) = "("
    /\ charAt(line, skipWhile(line, open + 1, isSpace)) = ")"
    /\ charAt(line, skipWhile(line, skipWhile(line, open + 1, isSpace) + 1, isSpace)) = "{"

\* /^alias\s+(\w+)=(.+)$/ with the name from nameStart to before nameEnd
aliasMatch(line, nameStart, nameEnd) ==
    /\ startsWith(line, <<"a","l","i","a","s">>)
    /\ isSpace(charAt(line, 6))
    /\ nameEnd > nameStart
    /\ charAt(line, nameEnd) = "="
    /\ nameEnd < Len(line)

\* the tests on one trimmed line, lines 86-121, first match wins
parseLine(line) ==
    IF line = <<>> THEN Skipped
    ELSE IF startsWith(line, <<"#">>)
    THEN Taken("comment", trim(SubSeq(line, 2, Len(line))), Value("string", <<>>))
    ELSE IF varMatch(line, skipWhile(line, skipWhile(line, 2, isNameChar), isSpace))
    THEN Taken("variable", varName(line, skipWhile(line, 2, isNameChar)),
               parseValue(varValue(line,
                   skipWhile(line, skipWhile(line, 2, isNameChar), isSpace))))
    ELSE IF importMatch(line, directiveEnd(line))
    THEN Taken("import", importTarget(line, directiveEnd(line)), Value("string", <<>>))
    ELSE IF funcMatch(line, skipWhile(line, 1, isWord),
                      skipWhile(line, skipWhile(line, 1, isWord), isSpace))
    THEN Taken("function", SubSeq(line, 1, skipWhile(line, 1, isWord) - 1),
               Value("string", <<>>))
    ELSE IF aliasMatch(line, skipWhile(line, 6, isSpace),
                       skipWhile(line, skipWhile(line, 6, isSpace), isWord))
    THEN Taken("alias",
               SubSeq(line, skipWhile(line, 6, isSpace),
                      skipWhile(line, skipWhile(line, 6, isSpace), isWord) - 1),
               Value("string", <<>>))
    ELSE Skipped

\* the names of the lines taken for what, in order
namesOf(taken, what) ==
    LET isWhat(t) == t.what = what
        picked == SelectSeq(taken, isWhat)
    IN  [k \in 1..Len(picked) |-> picked[k].name]

\* variables[name] = value for each variable line in order: the last one of
\* a name stays
variablesOf(taken) ==
    [name \in {taken[k].name : k \in {j \in 1..Len(taken) : taken[j].what = "variable"}} |->
        taken[CHOOSE k \in 1..Len(taken) :
                /\ taken[k].what = "variable" /\ taken[k].name = name
                /\ \A j \in (k + 1)..Len(taken) :
                      ~(taken[j].what = "variable" /\ taken[j].name = name)].value]

\* the ParsedConfig that parse returns; its validation is the literal of
\* lines 137-142
ParsedConfig(taken, lineCount) ==
    [success |-> TRUE,
     variables |-> variablesOf(taken),
     imports |-> namesOf(taken, "import"),
     comments |-> namesOf(taken, "comment"),
     functions |-> namesOf(taken, "function"),
     aliases |-> namesOf(taken, "alias"),
     lineCount |-> lineCount,
     validation |-> [isValid |-> TRUE, errors |-> <<>>, warnings |-> <<>>,
                     suggestions |-> <<>>]]

parseLines(lines) ==
    ParsedConfig([k \in 1..Len(lines) |-> parseLine(trim(lines[k]))], Len(lines))

\* BashParser.parse; validate, called at line 125, always succeeds
BashParser_parse(text) == parseLines(splitLines(text))

(***************************************************************************)
(* BashParser.extractDependencies.                                         *)
(***************************************************************************)
\* where (.+) starts when \s+(.+) is matched from position i of line on;
\* 0 when it does not match.  The spaces are taken greedily, and the last
\* one is given back to (.+) when nothing follows them.
restStart(line, i, afterSpaces) ==
    IF ~isSpace(charAt(line, i)) THEN 0
    ELSE IF afterSpaces <= Len(line) THEN afterSpaces
    ELSE IF afterSpaces - 1 > i THEN Len(line)
    ELSE 0

\* where (.+) starts when command\s+install\s+(.+) is matched at position k
\* of line, install being looked for at position at; 0 when it does not
installRestAt(line, k, command, at) ==
    IF /\ occursAt(line, k, command)
       /\ isSpace(charAt(line, k + Len(command)))
       /\ occursAt(line, at, <<"i","n","s","t","a","l","l">>)
    THEN restStart(line, at + 7, skipWhile(line, at + 7, isSpace))
    ELSE 0

installRest(line, k, command) ==
    IF k + Len(command) > Len(line) THEN 0
    ELSE installRestAt(line, k, command, skipWhile(line, k + Len(command), isSpace))

\* the positions of line where one of the commands starts a match
matchStarts(line, commands) ==
    {k \in 1..Len(line) : \E c \in commands : installRest(line, k, c) > 0}

\* match[1] of line.match(/command\s+install\s+(.+)/), the leftmost match,
\* for the spellings of the command; <<>> when there is no match
installArguments(line, commands, starts) ==
    IF starts = {} THEN <<>>
    ELSE SubSeq(line,
                installRest(line, CHOOSE k \in starts : \A j \in starts : k <= j,
                    CHOOSE c \in commands :
                        installRest(line,
                            CHOOSE k \in starts : \A j \in starts : k <= j, c) > 0),
                Len(line))

\* s.split(/\s+/) without its empty strings, from position i on
RECURSIVE tokensFrom(_, _)
tokensFrom(s, i) ==
    IF skipWhile(s, i, isSpace) > Len(s) THEN <<>>
    ELSE <<SubSeq(s, skipWhile(s, i, isSpace),
                  skipWhile(s, skipWhile(s, i, isSpace), notSpace) - 1)>>
         \o tokensFrom(s, skipWhile(s, skipWhile(s, i, isSpace), notSpace))

\* match[1].split(/\s+/).filter(pkg => pkg && !pkg.startsWith('-'))
packagesOf(arguments) ==
    SelectSeq(tokensFrom(arguments, 1), LAMBDA pkg : ~startsWith(pkg, <<"-">>))

\* one of the four install tests of extractDependencies
installedBy(line, mentions, commands) ==
    IF \E m \in mentions : includes(line, m)
    THEN packagesOf(installArguments(line, commands, matchStarts(line, commands)))
    ELSE <<>>

\* commandMap of getCommandDependencies, in the order of Object.entries
commandMap == <<
    <<<<"g","i","t">>, <<"g","i","t">>>>, <<<<"d","o","c","k","e","r">>, <<"d","o","c","k","e","r",".","i","o">>>>, <<<<"n","o","d","e">>, <<"n","o","d","e","j","s">>>>,
    <<<<"n","p","m">>, <<"n","p","m">>>>, <<<<"p","y","t","h","o","n">>, <<"p","y","t","h","o","n","3">>>>, <<<<"p","i","p">>, <<"p","y","t","h","o","n","3","-","p","i","p">>>>,
    <<<<"c","u","r","l">>, <<"c","u","r","l">>>>, <<<<"w","g","e","t">>, <<"w","g","e","t">>>>, <<<<"v","i","m">>, <<"v","i","m">>>>,
    <<<<"n","a","n","o">>, <<"n","a","n","o">>>>, <<<<"h","t","o","p">>, <<"h","t","o","p">>>>, <<<<"t","r","e","e">>, <<"t","r","e","e">>>>,
    <<<<"j","q">>, <<"j","q">>>>, <<<<"y","q">>, <<"y","q">>>>, <<<<"k","u","b","e","c","t","l">>, <<"k","u","b","e","c","t","l">>>>,
    <<<<"t","e","r","r","a","f","o","r","m">>, <<"t","e","r","r","a","f","o","r","m">>>>, <<<<"a","w","s">>, <<"a","w","s","c","l","i">>>> >>

\* BashParser.getCommandDependencies
getCommandDependencies(line) ==
    IF includes(line, <<"w","h","i","c","h">>) \/ includes(line, <<"c","o","m","m","a","n","d"," ","-","v">>) THEN <<>>
    ELSE flat([k \in 1..Len(commandMap) |->
                  IF includes(line, commandMap[k][1]) THEN <<commandMap[k][2]>>
                  ELSE <<>>])

\* what one line of the text adds to dependencies, lines 219-256
lineDependencies(line) ==
    installedBy(line, {<<"a","p","t"," ","i","n","s","t","a","l","l">>, <<"a","p","t","-","g","e","t"," ","i","n","s","t","a","l","l">>}, {<<"a","p","t">>, <<"a","p","t","-","g","e","t">>})
    \o installedBy(line, {<<"s","n","a","p"," ","i","n","s","t","a","l","l">>}, {<<"s","n","a","p">>})
    \o installedBy(line, {<<"p","i","p"," ","i","n","s","t","a","l","l">>}, {<<"p","i","p">>})
    \o installedBy(line, {<<"n","p","m"," ","i","n","s","t","a","l","l">>}, {<<"n","p","m">>})
    \o getCommandDependencies(line)

\* [...new Set(s)]: the first occurrence of each element, in order
RECURSIVE unique(_, _)
unique(s, seen) ==
    IF s = <<>> THEN <<>>
    ELSE IF Head(s) \in seen THEN unique(Tail(s), seen)
    ELSE <<Head(s)>> \o unique(Tail(s), seen \cup {Head(s)})

dependenciesOf(lines) ==
    unique(flat([k \in 1..Len(lines) |-> lineDependencies(lines[k])]), {})

\* BashParser.extractDependencies
BashParser_extractDependencies(text) == dependenciesOf(splitLines(text))

(***************************************************************************)
(* The parsers on texts: a text is put together from lines and handed to   *)
(* validate of the four parser classes and to parse and                    *)
(* extractDependencies of BashParser.                                      *)
(***************************************************************************)
TextLines ==
    {<<"e","x","p","o","r","t"," ","F","O","O","=">> \o <<"\"">> \o <<"b","a","r">> \o <<"\"">>,
     <<"a","l","i","a","s"," ","l","l","=">> \o <<"\"">> \o <<"l","s"," ","-","l","a">> \o <<"\"">>,
     <<"B","A","R","=","0","4","2">>,
     <<"a","p","t"," ","i","n","s","t","a","l","l"," ","g","i","t"," ","v","i","m">>,
     <<"n","p","m"," ","i","n","s","t","a","l","l"," ","-","g"," ","y","a","r","n">>,
     <<"a","p","t","-","g","e","t"," ","i","n","s","t","a","l","l"," ","g","i","t">>,
     <<"a","p","t","-","g","e","t"," "," ","i","n","s","t","a","l","l"," ","-","y"," ","t","m","u","x"," ">>,
     <<"e","c","h","o"," ","$","{","A","}"," ","$","{","B">>,
     <<"e","c","h","o"," ">> \o <<Backtick>> \o <<"d","a","t","e">>,
     <<"r","m"," ","-","r","f"," ","/","x">>,
     <<"[","s","e","t"," ","a","=">>,
     <<"#"," ","s","e","t"," ","x","=","1">>,
     <<"c","a","l","l"," ","p","l","u","g","#","b","e","g","i","n","(",")">>,
     <<"P","l","u","g"," ","'","a","/","b","'">>,
     <<"e","c","h","o"," ","$","(","(","1","+","2",")",")">>}

\* how many lines the harness has put into the text
lineCount(text) == IF text = <<>> THEN 0 ELSE occurrences(text, "\n") + 1

AddLine ==
    /\ analysis = <<>>
    /\ lineCount(parserInput) < MaxLines
    /\ \E line \in TextLines :
          parserInput' = IF parserInput = <<>> THEN line
                         ELSE parserInput \o <<"\n">> \o line
    /\ UNCHANGED <<analysis, scanVars, classVars, factoryVars, managerVars>>

Analyze ==
    /\ analysis = <<>>
    /\ analysis' = <<[bash |-> BashParser_validate(parserInput),
                      git |-> GitParser_validate(parserInput),
                      vim |-> VimParser_validate(parserInput),
                      simple |-> SimpleParser_validate(parserInput),
                      parsed |-> BashParser_parse(parserInput),
                      dependencies |-> BashParser_extractDependencies(parserInput)]>>
    /\ UNCHANGED <<parserInput, scanVars, classVars, factoryVars, managerVars>>

NextText == AddLine \/ Analyze

\* the format parsers on texts
SpecText == InitClassify /\ [][NextText]_vars

(***************************************************************************)
(* GitParser.parse and GitParser.extractDependencies (git-parser.ts).      *)
(* sections, aliases and remotes are functions from the property name to   *)
(* the value assigned last.                                                *)
(***************************************************************************)
\* match[1] of line.match(/^\[([^\]]+)\]$/); <<>> when there is no match
sectionMatch(line) ==
    IF /\ Len(line) >= 3
       /\ line[1] = "["
       /\ line[Len(line)] = "]"
       /\ \A k \in 2..(Len(line) - 1) : line[k] # "]"
    THEN <<SubSeq(line, 2, Len(line) - 1)>>
    ELSE <<>>

\* where (.+) starts when =\s*(.+) is matched with the "=" at position e of
\* line; 0 when it does not match.  The spaces are taken greedily, and the
\* last one is given back to (.+) when nothing follows them.
afterEquals(line, e, afterSpaces) ==
    IF afterSpaces <= Len(line) THEN afterSpaces
    ELSE IF afterSpaces - 1 > e THEN Len(line)
    ELSE 0

valueStartAt(line, e) ==
    IF charAt(line, e) # "=" THEN 0
    ELSE afterEquals(line, e, skipWhile(line, e + 1, isSpace))

\* kvMatch[1] of /^([^=]+)\s*=\s*(.+)$/: all that stands before the first
\* "=", the spaces before it included
gitKey(line, firstEquals) == SubSeq(line, 1, firstEquals - 1)

\* kvMatch[2]
gitValue(line, firstEquals) == SubSeq(line, valueStartAt(line, firstEquals), Len(line))

\* GitParser.parseValue on the trimmed value
gitParseTrimmed(trimmed) ==
    IF trimmed = <<"t","r","u","e">> \/ trimmed = <<"f","a","l","s","e">>
    THEN Value("boolean", trimmed)
    ELSE IF isNumeric(trimmed)
    THEN Value("number", numberToString(parseDigits(trimmed, 0)))
    ELSE IF startsWith(trimmed, <<"\"">>) /\ endsWith(trimmed, <<"\"">>)
    THEN Value("string", SubSeq(trimmed, 2, Len(trimmed) - 1))
    ELSE IF startsWith(trimmed, <<"'">>) /\ endsWith(trimmed, <<"'">>)
    THEN Value("string", SubSeq(trimmed, 2, Len(trimmed) - 1))
    ELSE Value("string", trimmed)

\* GitParser.parseValue
gitParseValue(value) == gitParseTrimmed(trim(value))

\* what follows the first double quote of the section name, up to the next
untilQuote(rest, quote) == IF quote = 0 THEN rest ELSE SubSeq(rest, 1, quote - 1)

afterQuote(section, quote) ==
    untilQuote(SubSeq(section, quote + 1, Len(section)),
               indexOf(SubSeq(section, quote + 1, Len(section)), <<"\"">>))

\* currentSection.split('"')[1]; <<>> when it is undefined or empty
remoteNameOf(section) ==
    IF indexOf(section, <<"\"">>) = 0 THEN <<>>
    ELSE afterQuote(section, indexOf(section, <<"\"">>))

\* object[key] = value
assign(object, key, value) == (key :> value) @@ object

\* what parse holds before the first line
GitParseStart ==
    [currentSection |-> <<>>, sections |-> <<>>, aliases |-> <<>>,
     remotes |-> <<>>, comments |-> <<>>]

\* lines 49-65: the key-value pair of a line inside currentSection
gitKeyValue(state, key, parsedValue) ==
    [state EXCEPT
        !.aliases = IF state.currentSection = <<"a","l","i","a","s">>
                    THEN assign(@, key, parsedValue) ELSE @,
        !.remotes = IF /\ startsWith(state.currentSection, <<"r","e","m","o","t","e">>)
                       /\ remoteNameOf(state.currentSection) # <<>>
                    THEN assign(@, remoteNameOf(state.currentSection), parsedValue)
                    ELSE @,
        !.sections = assign(@, state.currentSection,
                            assign(@[state.currentSection], key, parsedValue))]

\* lines 38-44: a section header
gitSection(state, section) ==
    [state EXCEPT
        !.currentSection = section,
        !.sections = IF section \in DOMAIN @ THEN @ ELSE assign(@, section, <<>>)]

\* lines 24-66: the body of the loop on one trimmed line
gitParseLine(state, line) ==
    IF line = <<>> THEN state
    ELSE IF startsWith(line, <<"#">>)
    THEN [state EXCEPT !.comments = Append(@, trim(SubSeq(line, 2, Len(line))))]
    ELSE IF sectionMatch(line) # <<>> THEN gitSection(state, sectionMatch(line)[1])
    ELSE IF /\ gitKeyValueMatch(indexOf(line, <<"=">>), Len(line))
            /\ state.currentSection # <<>>
    THEN gitKeyValue(state, gitKey(line, indexOf(line, <<"=">>)),
                     gitParseValue(gitValue(line, indexOf(line, <<"=">>))))
    ELSE state

RECURSIVE gitParseFrom(_, _, _)
gitParseFrom(lines, k, state) ==
    IF k > Len(lines) THEN state
    ELSE gitParseFrom(lines, k + 1, gitParseLine(state, trim(lines[k])))

\* the ParsedConfig that parse returns; its validation is the literal of
\* lines 81-86
GitParsedConfig(state, count) ==
    [success |-> TRUE,
     sections |-> state.sections,
     aliases |-> state.aliases,
     remotes |-> state.remotes,
     lineCount |-> count,
     variables |-> <<>>,
     imports |-> <<>>,
     comments |-> state.comments,
     validation |-> [isValid |-> TRUE, errors |-> <<>>, warnings |-> <<>>,
                     suggestions |-> <<>>]]

gitParseLines(lines) == GitParsedConfig(gitParseFrom(lines, 1, GitParseStart), Len(lines))

\* GitParser.parse
GitParser_parse(text) == gitParseLines(splitLines(text))

\* the positions of line where name\s*=\s*(.+) matches
keyStarts(line, name) ==
    {k \in 1..Len(line) :
        /\ occursAt(line, k, name)
        /\ valueStartAt(line, skipWhile(line, k + Len(name), isSpace)) > 0}

\* match[1] of line.match(/name\s*=\s*(.+)/), the leftmost match, trimmed;
\* <<>> when there is no match
keyedValue(line, name, starts) ==
    IF starts = {} THEN <<>>
    ELSE <<trim(SubSeq(line,
                valueStartAt(line,
                    skipWhile(line,
                        (CHOOSE k \in starts : \A j \in starts : k <= j) + Len(name),
                        isSpace)),
                Len(line)))>>

\* lines 155-167: the editor of a core.editor line
editorDependencies(editor) ==
    IF editor = <<>> THEN <<>>
    ELSE IF includes(editor[1], <<"v","i","m">>) THEN <<<<"v","i","m">>>>
    ELSE IF includes(editor[1], <<"n","a","n","o">>) THEN <<<<"n","a","n","o">>>>
    ELSE IF includes(editor[1], <<"c","o","d","e">>) THEN <<<<"c","o","d","e">>>>
    ELSE <<>>

\* lines 173-185: the helper of a credential.helper line
helperDependencies(helper) ==
    IF helper = <<>> THEN <<>>
    ELSE IF includes(helper[1], <<"s","t","o","r","e">>) \/ includes(helper[1], <<"c","a","c","h","e">>) THEN <<>>
    ELSE IF includes(helper[1], <<"m","a","n","a","g","e","r">>) THEN <<<<"g","i","t","-","c","r","e","d","e","n","t","i","a","l","-","m","a","n","a","g","e","r">>>>
    ELSE <<>>

\* the positions of line where alias\.(\w+)\s*=\s*(.+) matches
aliasStarts(line) ==
    {k \in 1..Len(line) :
        /\ occursAt(line, k, <<"a","l","i","a","s",".">>)
        /\ skipWhile(line, k + 6, isWord) > k + 6
        /\ valueStartAt(line, skipWhile(line, skipWhile(line, k + 6, isWord), isSpace)) > 0}

\* match[2] of line.match(/alias\.(\w+)\s*=\s*(.+)/); <<>> when no match
aliasCommand(line, starts) ==
    IF starts = {} THEN <<>>
    ELSE <<SubSeq(line,
               valueStartAt(line,
                   skipWhile(line,
                       skipWhile(line,
                           (CHOOSE k \in starts : \A j \in starts : k <= j) + 6, isWord),
                       isSpace)),
               Len(line))>>

\* commandMap of GitParser.getCommandDependencies, in the order of
\* Object.entries
gitCommandMap == <<
    <<<<"t","i","g">>, <<"t","i","g">>>>, <<<<"l","a","z","y","g","i","t">>, <<"l","a","z","y","g","i","t">>>>, <<<<"g","h">>, <<"g","h">>>>,
    <<<<"h","u","b">>, <<"h","u","b">>>>, <<<<"g","i","t","-","f","l","o","w">>, <<"g","i","t","-","f","l","o","w">>>>, <<<<"g","i","t","-","l","f","s">>, <<"g","i","t","-","l","f","s">>>> >>

\* GitParser.getCommandDependencies
gitCommandDependencies(command) ==
    IF command = <<>> THEN <<>>
    ELSE flat([k \in 1..Len(gitCommandMap) |->
                  IF includes(command[1], gitCommandMap[k][1])
                  THEN <<gitCommandMap[k][2]>> ELSE <<>>])

\* what one line of the text adds to dependencies, lines 154-195
gitLineDependencies(line) ==
    (IF includes(line, <<"c","o","r","e",".","e","d","i","t","o","r">>)
     THEN editorDependencies(keyedValue(line, <<"c","o","r","e",".","e","d","i","t","o","r">>,
                                        keyStarts(line, <<"c","o","r","e",".","e","d","i","t","o","r">>)))
     ELSE <<>>)
    \o pushIf(includes(line, <<"d","i","f","f",".","t","o","o","l">>) \/ includes(line, <<"m","e","r","g","e",".","t","o","o","l">>), <<"m","e","l","d">>)
    \o (IF includes(line, <<"c","r","e","d","e","n","t","i","a","l",".","h","e","l","p","e","r">>)
        THEN helperDependencies(keyedValue(line, <<"c","r","e","d","e","n","t","i","a","l",".","h","e","l","p","e","r">>,
                                           keyStarts(line, <<"c","r","e","d","e","n","t","i","a","l",".","h","e","l","p","e","r">>)))
        ELSE <<>>)
    \o (IF includes(line, <<"a","l","i","a","s">>) /\ includes(line, <<"=">>)
        THEN gitCommandDependencies(aliasCommand(line, aliasStarts(line)))
        ELSE <<>>)

gitDependenciesOf(lines) ==
    unique(<<<<"g","i","t">>>> \o flat([k \in 1..Len(lines) |-> gitLineDependencies(lines[k])]), {})

\* GitParser.extractDependencies
GitParser_extractDependencies(text) == gitDependenciesOf(splitLines(text))

(***************************************************************************)
(* GitParser on texts: a git configuration is put together from lines and  *)
(* handed to validate, parse and extractDependencies of GitParser.         *)
(***************************************************************************)
GitLines ==
    {<<"[","r","e","m","o","t","e"," ">> \o <<"\"">> \o <<"o","r","i","g","i","n">> \o <<"\"">> \o <<"]">>,
     <<"u","r","l"," ","="," ","u">>,
     <<"f","e","t","c","h"," ","="," ","f">>,
     <<"[","c","o","r","e","]">>,
     <<"e","d","i","t","o","r"," ","="," ","v","i","m">>,
     <<" "," ","e","d","i","t","o","r"," ","="," ","n","a","n","o">>,
     <<"c","o","r","e",".","e","d","i","t","o","r"," ","="," ","v","i","m">>,
     <<"[","a","l","i","a","s","]">>,
     <<"a","l","i","a","s",".","l","g"," ","="," ","t","i","g">>,
     <<"b","a","r","e","=","t","r","u","e">>,
     <<"[","c","o","r","e">>,
     <<"#"," ","n","o","t","e">>}

AddGitLine ==
    /\ analysis = <<>>
    /\ lineCount(parserInput) < MaxGitLines
    /\ \E line \in GitLines :
          parserInput' = IF parserInput = <<>> THEN line
                         ELSE parserInput \o <<"\n">> \o line
    /\ UNCHANGED <<analysis, scanVars, classVars, factoryVars, managerVars>>

AnalyzeGit ==
    /\ analysis = <<>>
    /\ analysis' = <<[git |-> GitParser_validate(parserInput),
                      parsed |-> GitParser_parse(parserInput),
                      dependencies |-> GitParser_extractDependencies(parserInput)]>>
    /\ UNCHANGED <<parserInput, scanVars, classVars, factoryVars, managerVars>>

NextGit == AddGitLine \/ AnalyzeGit

\* GitParser on texts
SpecGit == InitClassify /\ [][NextGit]_vars

(***************************************************************************)
(* RestoreManager (restore-manager.ts).  The machine a restore meets is    *)
(* whether git clone succeeds, the files of the clone, whether it has a    *)
(* setup.sh, the files already in the home directory, whether writeFile    *)
(* fails there, whether readFile of the files there fails (files the user  *)
(* may write but not read), and the clock; effects is the log of the calls *)
(* that change the machine: execSync, mkdir and writeFile.                 *)
(***************************************************************************)
\* a Result that holds data, and one that holds an Error with a message
Ok(data) == [success |-> TRUE, data |-> <<data>>, error |-> <<>>]

Err(message) == [success |-> FALSE, data |-> <<>>, error |-> <<message>>]

\* an optional boolean read by if (...) or by `... || false`
truthy(field) == field # <<>> /\ field[1]

\* the RestoreOptions of a restore; repoUrl is the same in all of them
RestoreOptionsSpace ==
    [dryRun : Optional(BOOLEAN), createBackups : Optional(BOOLEAN),
     installPackages : Optional(BOOLEAN)]

repoUrl == <<"h","t","t","p","s",":","/","/","g","i","t","h","u","b",".","c","o","m","/","u","/","d">>

\* the category directories readConfigurations reads, in its order
categories == <<<<"s","h","e","l","l">>, <<"e","d","i","t","o","r","s">>, <<"g","i","t">>, <<"s","y","s","t","e","m">>>>

\* the files a clone can hold, as <<category, file>>: one per category at most
RepoFiles == {<<<<"s","h","e","l","l">>, <<".","b","a","s","h","r","c">>>>, <<<<"e","d","i","t","o","r","s">>, <<"i","n","i","t",".","v","i","m">>>>, <<<<"s","y","s","t","e","m">>, <<"c","o","n","f","i","g">>>>}

\* the files the home directory can hold before the restore
HomeFiles == {<<"/","h","o","m","e","/","u","/",".","b","a","s","h","r","c">>, <<"/","h","o","m","e","/","u","/",".","s","s","h","/","c","o","n","f","i","g">>}

\* Date.now(), read as the same instant through one restore
Clock == {1700}

MachineSpace ==
    [cloneOk : BOOLEAN, repo : SUBSET RepoFiles, hasSetup : BOOLEAN,
     existing : SUBSET HomeFiles, readOnly : BOOLEAN, unreadable : BOOLEAN,
     now : Clock]

\* one call that changes the machine
Effect(op, target, data) == [op |-> op, target |-> target, data |-> data]

\* cloneRepository: tempDir and the command handed to execSync
tempDir(now) == join(<<"/","t","m","p">>, <<"d","o","t","s","y","n","c","-">> \o numberToString(now))

cloneCommand(now) == <<"g","i","t"," ","c","l","o","n","e"," ">> \o repoUrl \o <<" ">> \o tempDir(now)

\* the message of the Error a failing execSync throws
execFailed == <<"C","o","m","m","a","n","d"," ","f","a","i","l","e","d">>

\* determineTargetPath: pathMap[baseName] || `~/${baseName}`
targetOf(baseName) ==
    CASE baseName = <<".","b","a","s","h","r","c">> -> <<"~","/",".","b","a","s","h","r","c">>
      [] baseName = <<".","z","s","h","r","c">> -> <<"~","/",".","z","s","h","r","c">>
      [] baseName = <<".","v","i","m","r","c">> -> <<"~","/",".","v","i","m","r","c">>
      [] baseName = <<".","g","i","t","c","o","n","f","i","g">> -> <<"~","/",".","g","i","t","c","o","n","f","i","g">>
      [] baseName = <<"c","o","n","f","i","g">> -> <<"~","/",".","s","s","h","/","c","o","n","f","i","g">>
      [] OTHER -> <<"~","/">> \o baseName

determineTargetPath(filename, category) == targetOf(basename(filename))

\* RestoreManager.determineConfigType: typeMap[basename(filename)] || category
typeOf(baseName, category) ==
    CASE baseName = <<".","b","a","s","h","r","c">> -> <<"b","a","s","h">>
      [] baseName = <<".","z","s","h","r","c">> -> <<"z","s","h">>
      [] baseName = <<".","v","i","m","r","c">> -> <<"v","i","m">>
      [] baseName = <<".","g","i","t","c","o","n","f","i","g">> -> <<"g","i","t">>
      [] baseName = <<"c","o","n","f","i","g">> -> <<"s","s","h">>
      [] OTHER -> category

restoredConfigType(filename, category) == typeOf(basename(filename), category)

\* RestoreManager.resolvePath
restoredPath(path) ==
    IF startsWith(path, <<"~">>) THEN join(homeDir, slice(path, 1)) ELSE path

\* the content of a file of the clone, and of a file of the home directory
repoContent(file) == <<"#"," ">> \o file

oldContent == <<"o","l","d">>

\* readConfigurations: the DotfileConfig built for one file of the clone
configOf(file, category, content) ==
    [path |-> determineTargetPath(file, category),
     type |-> restoredConfigType(file, category),
     content |-> content, size |-> Len(content), dependencies |-> <<>>,
     isActive |-> TRUE, backupStatus |-> <<"n","o","t","_","b","a","c","k","e","d","_","u","p">>, aiAnalysis |-> <<>>]

\* readDirectory of a category directory: its file, or a throw the loop skips
categoryConfigs(repo, category) ==
    IF \E pair \in repo : pair[1] = category
    THEN LET file == (CHOOSE pair \in repo : pair[1] = category)[2]
         IN  <<configOf(file, category, repoContent(file))>>
    ELSE <<>>

readConfigurations(repo) ==
    flat([c \in 1..Len(categories) |-> categoryConfigs(repo, categories[c])])

\* Array.prototype.join
RECURSIVE joinWith(_, _)
joinWith(parts, separator) ==
    IF parts = <<>> THEN <<>>
    ELSE IF Len(parts) = 1 THEN parts[1]
    ELSE parts[1] \o separator \o joinWith(Tail(parts), separator)

\* installPackages: Array.from(allDependencies)
requiredPackages(cfgs) ==
    unique(flat([k \in 1..Len(cfgs) |->
                    IF cfgs[k].aiAnalysis # <<>>
                    THEN cfgs[k].aiAnalysis[1].requiredPackages
                    ELSE <<>>]), {})

\* installPackages: the calls it makes for these packages
installPackagesEffects(packages, dryRun) ==
    IF packages = <<>> \/ dryRun THEN <<>>
    ELSE <<Effect("execSync", <<"s","u","d","o"," ","a","p","t"," ","u","p","d","a","t","e">>, <<>>),
           Effect("execSync", <<"s","u","d","o"," ","a","p","t"," ","i","n","s","t","a","l","l"," ","-","y"," ">> \o joinWith(packages, <<" ">>), <<>>)>>

\* createBackups, loop body: stat, readFile and writeFile of one target; a
\* throw of any of them is caught
backupOf(m, targetPath) ==
    IF targetPath \in m.existing /\ ~m.unreadable /\ ~m.readOnly
    THEN <<Effect("writeFile", targetPath \o <<".","b","a","c","k","u","p",".">> \o numberToString(m.now),
                  oldContent)>>
    ELSE <<>>

createBackups(m, cfgs) ==
    flat([k \in 1..Len(cfgs) |-> backupOf(m, restoredPath(cfgs[k].path))])

\* installConfigurations: the chmod of one installed file
permissionEffects(path, targetPath) ==
    IF includes(path, <<".","s","s","h">>)
    THEN <<Effect("execSync", <<"c","h","m","o","d"," ","6","0","0"," ">> \o targetPath, <<>>)>>
    ELSE IF includes(path, <<"b","i","n","/">>)
    THEN <<Effect("execSync", <<"c","h","m","o","d"," ","+","x"," ">> \o targetPath, <<>>)>>
    ELSE <<>>

\* installConfigurations, loop body: mkdir, then a writeFile that throws in a
\* read-only home directory
installOne(m, config, targetPath, dryRun) ==
    IF dryRun THEN <<>>
    ELSE IF m.readOnly THEN <<Effect("mkdir", dirname(targetPath), <<>>)>>
    ELSE <<Effect("mkdir", dirname(targetPath), <<>>),
           Effect("writeFile", targetPath, config.content)>>
         \o permissionEffects(config.path, targetPath)

installConfigurationsEffects(m, cfgs, dryRun) ==
    flat([k \in 1..Len(cfgs) |->
             installOne(m, cfgs[k], restoredPath(cfgs[k].path), dryRun)])

\* installConfigurations: installedCount
installedCountOf(m, cfgs, dryRun) == IF dryRun \/ ~m.readOnly THEN Len(cfgs) ELSE 0

\* runSetupScripts
runSetupScripts(m, setupScript, dryRun) ==
    IF m.hasSetup /\ ~dryRun
    THEN <<Effect("execSync", <<"c","h","m","o","d"," ","+","x"," ">> \o setupScript, <<>>),
           Effect("execSync", <<"b","a","s","h"," ">> \o setupScript, <<>>)>>
    ELSE <<>>

\* what a restore leaves alone
outsideRestore == <<scanVars, classVars, factoryVars, textVars, backupVars, analysisVars>>

\* restoreFromRepository is called
StartRestore ==
    /\ restorePc = "idle"
    /\ \E opts \in RestoreOptionsSpace, m \in MachineSpace :
          /\ restoreOptions' = <<opts>>
          /\ machine' = <<m>>
    /\ restoreLocals' = <<[repoPath |-> <<>>, configs |-> <<>>,
                           packagesInstalled |-> 0, installedCount |-> 0]>>
    /\ restorePc' = "clone"
    /\ UNCHANGED <<effects, restoreResult, outsideRestore>>

\* Step 1, lines 29 and 75-85; a throw is caught at lines 64-69
CloneRepository ==
    /\ restorePc = "clone"
    /\ IF machine[1].cloneOk
       THEN /\ effects' = Append(effects,
                                 Effect("execSync", cloneCommand(machine[1].now), <<>>))
            /\ restoreLocals' = <<[restoreLocals[1] EXCEPT
                                     !.repoPath = <<tempDir(machine[1].now)>>]>>
            /\ restorePc' = "read"
            /\ UNCHANGED restoreResult
       ELSE /\ restoreResult' = <<Err(<<"R","e","s","t","o","r","a","t","i","o","n"," ","f","a","i","l","e","d",":"," ">>
                                      \o <<"F","a","i","l","e","d"," ","t","o"," ","c","l","o","n","e"," ","r","e","p","o","s","i","t","o","r","y",":"," ">> \o execFailed)>>
            /\ restorePc' = "done"
            /\ UNCHANGED <<effects, restoreLocals>>
    /\ UNCHANGED <<restoreOptions, machine, outsideRestore>>

\* Step 2, lines 32-36
ReadConfigurations ==
    /\ restorePc = "read"
    /\ restoreLocals' = <<[restoreLocals[1] EXCEPT
                             !.configs = readConfigurations(machine[1].repo)]>>
    /\ IF readConfigurations(machine[1].repo) = <<>>
       THEN /\ restoreResult' = <<Err(<<"N","o"," ","c","o","n","f","i","g","u","r","a","t","i","o","n","s"," ","f","o","u","n","d"," ","i","n"," ","r","e","p","o","s","i","t","o","r","y">>)>>
            /\ restorePc' = "done"
       ELSE /\ restorePc' = "packages"
            /\ UNCHANGED restoreResult
    /\ UNCHANGED <<restoreOptions, machine, effects, outsideRestore>>

\* Step 3, lines 41-44 and 134-165
InstallPackages ==
    /\ restorePc = "packages"
    /\ IF truthy(restoreOptions[1].installPackages)
       THEN /\ effects' = effects
                  \o installPackagesEffects(requiredPackages(restoreLocals[1].configs),
                                            truthy(restoreOptions[1].dryRun))
            /\ restoreLocals' = <<[restoreLocals[1] EXCEPT
                  !.packagesInstalled = Len(requiredPackages(restoreLocals[1].configs))]>>
       ELSE UNCHANGED <<effects, restoreLocals>>
    /\ restorePc' = "backups"
    /\ UNCHANGED <<restoreOptions, machine, restoreResult, outsideRestore>>

\* Step 4, lines 47-49 and 170-193
CreateBackups ==
    /\ restorePc = "backups"
    /\ IF truthy(restoreOptions[1].createBackups)
       THEN effects' = effects \o createBackups(machine[1], restoreLocals[1].configs)
       ELSE UNCHANGED effects
    /\ restorePc' = "install"
    /\ UNCHANGED <<restoreOptions, machine, restoreLocals, restoreResult, outsideRestore>>

\* Step 5, lines 52 and 198-230
InstallConfigurations ==
    /\ restorePc = "install"
    /\ effects' = effects
          \o installConfigurationsEffects(machine[1], restoreLocals[1].configs,
                                          truthy(restoreOptions[1].dryRun))
    /\ restoreLocals' = <<[restoreLocals[1] EXCEPT
          !.installedCount = installedCountOf(machine[1], restoreLocals[1].configs,
                                              truthy(restoreOptions[1].dryRun))]>>
    /\ restorePc' = "setup"
    /\ UNCHANGED <<restoreOptions, machine, restoreResult, outsideRestore>>

\* Step 6 and the return, lines 55-63 and 235-256
RunSetupScripts ==
    /\ restorePc = "setup"
    /\ effects' = effects
          \o runSetupScripts(machine[1], join(restoreLocals[1].repoPath[1], <<"s","e","t","u","p",".","s","h">>),
                             truthy(restoreOptions[1].dryRun))
    /\ restoreResult' = <<Ok([configCount |-> restoreLocals[1].installedCount,
                              packagesInstalled |-> restoreLocals[1].packagesInstalled])>>
    /\ restorePc' = "done"
    /\ UNCHANGED <<restoreOptions, machine, restoreLocals, outsideRestore>>

NextRestore ==
    \/ StartRestore
    \/ CloneRepository
    \/ ReadConfigurations
    \/ InstallPackages
    \/ CreateBackups
    \/ InstallConfigurations
    \/ RunSetupScripts

SpecRestore == InitClassify /\ [][NextRestore]_vars

(***************************************************************************)
(* BackupManager.createBackup (backup-manager.ts) with                     *)
(* AnalysisManager.analyzeMultipleConfigs (analysis-manager.ts).  What the *)
(* services answer is fixed when the call starts: for which configs the AI *)
(* service's analyzeConfig succeeds, and whether createRepository and      *)
(* uploadConfigurations succeed.                                           *)
(***************************************************************************)
\* longest list of configurations handed to createBackup
MaxConfigs == 2

\* the path, the type and the content of the k-th configuration of a call
backupPaths == <<<<"~","/",".","b","a","s","h","r","c">>, <<"~","/",".","g","i","t","c","o","n","f","i","g">>>>

backupTypes == <<<<"b","a","s","h">>, <<"g","i","t">>>>

backupContents == <<<<"a","p","t"," ","i","n","s","t","a","l","l"," ","g","i","t"," ","v","i","m">>, <<"c","o","r","e",".","e","d","i","t","o","r"," ","="," ","n","a","n","o">>>>

\* an aiAnalysis a configuration carries into the call, and the one the AI
\* service gives
carriedAnalysis == [category |-> <<"s","h","e","l","l">>, requiredPackages |-> <<<<"g","i","t">>>>]

freshAnalysis == [category |-> <<"s","h","e","l","l">>, requiredPackages |-> <<>>]

\* the lists of configurations of a call: each with or without an aiAnalysis
ConfigLists ==
    UNION {[1..n -> {<<>>, <<carriedAnalysis>>}] : n \in 0..MaxConfigs}

backupConfigs(carried) ==
    [k \in 1..Len(carried) |->
        [path |-> backupPaths[k], type |-> backupTypes[k],
         content |-> backupContents[k], dependencies |-> <<>>,
         aiAnalysis |-> carried[k], backupStatus |-> <<"n","o","t","_","b","a","c","k","e","d","_","u","p">>]]

\* the URL of the repository createRepository makes
backupRepoUrl == <<"h","t","t","p","s",":","/","/","g","i","t","h","u","b",".","c","o","m","/","u","/","d","o","t","f","i","l","e","s">>

\* analyzeConfig, lines 395-396: parser.parse(config) of the parser that
\* ParserFactory.getParser gives for the type, of the types the calls here hold
parseOf(config) ==
    IF config.type = <<"g","i","t">> THEN GitParser_parse(config.content)
    ELSE BashParser_parse(config.content)

\* lines 398-401: the dependencies are stored in the configuration itself
\* before the AI service is asked
withDependencies(config) ==
    IF parseOf(config).success
    THEN [config EXCEPT !.dependencies =
             IF config.type = <<"g","i","t">> THEN GitParser_extractDependencies(config.content)
             ELSE BashParser_extractDependencies(config.content)]
    ELSE config

\* lines 406-412: a success of the AI service is stored in the configuration
\* itself
aiAnswered(config, aiSucceeds) ==
    IF aiSucceeds
    THEN [config EXCEPT !.aiAnalysis = <<freshAnalysis>>, !.backupStatus = <<"p","e","n","d","i","n","g">>]
    ELSE config

\* the configuration after analyzeConfig(config)
analyzeConfig(config, aiSucceeds) == aiAnswered(withDependencies(config), aiSucceeds)

\* the configurations after analyzeMultipleConfigs has run over them
analyzedInPlace(cfgs, aiOk) ==
    [k \in 1..Len(cfgs) |-> analyzeConfig(cfgs[k], k \in aiOk)]

\* analyzeMultipleConfigs: results, the data of the fulfilled successes in order
analysisResults(cfgs, aiOk) ==
    flat([k \in 1..Len(cfgs) |->
             IF k \in aiOk THEN <<analyzeConfig(cfgs[k], TRUE)>> ELSE <<>>])

\* analyzeMultipleConfigs: it fails when there are errors and no results
analyzeMultipleConfigs(cfgs, aiOk) ==
    IF Len(analysisResults(cfgs, aiOk)) = 0 /\ Len(cfgs) > 0
    THEN Err(<<"A","l","l"," ","a","n","a","l","y","s","e","s"," ","f","a","i","l","e","d">>)
    ELSE Ok(analysisResults(cfgs, aiOk))

\* createBackup, line 70
analysisCountOf(analyzed) ==
    Cardinality({k \in 1..Len(analyzed) : analyzed[k].aiAnalysis # <<>>})

\* what a backup leaves alone
outsideBackup == <<scanVars, classVars, factoryVars, textVars, restoreVars, analysisVars>>

\* createBackup is called: line 33
StartBackup ==
    /\ backupPc = "idle"
    /\ \E carried \in ConfigLists, includeAI \in Optional(BOOLEAN),
          repoOk \in BOOLEAN, uploadOk \in BOOLEAN :
          \E aiOk \in SUBSET (1..Len(carried)) :
              /\ backupCall' = <<[configs |-> backupConfigs(carried),
                                  includeAI |-> includeAI, aiOk |-> aiOk,
                                  repoOk |-> repoOk, uploadOk |-> uploadOk,
                                  analysisResult |-> <<>>]>>
              /\ analyzedConfigs' = backupConfigs(carried)
    /\ backupPc' = "analyze"
    /\ UNCHANGED <<backupResult, outsideBackup>>

\* Step 1, lines 34-44; analyzedConfigs is the input array itself unless the
\* analysis succeeded
AnalyzeConfigs ==
    /\ backupPc = "analyze"
    /\ IF truthy(backupCall[1].includeAI)
       THEN /\ backupCall' = <<[backupCall[1] EXCEPT
                  !.configs = analyzedInPlace(backupCall[1].configs, backupCall[1].aiOk),
                  !.analysisResult =
                      <<analyzeMultipleConfigs(backupCall[1].configs, backupCall[1].aiOk)>>]>>
            /\ analyzedConfigs' =
                  IF analyzeMultipleConfigs(backupCall[1].configs, backupCall[1].aiOk).success
                  THEN analysisResults(backupCall[1].configs, backupCall[1].aiOk)
                  ELSE analyzedInPlace(backupCall[1].configs, backupCall[1].aiOk)
       ELSE UNCHANGED <<backupCall, analyzedConfigs>>
    /\ backupPc' = "repository"
    /\ UNCHANGED <<backupResult, outsideBackup>>

\* Step 2, lines 48-52
CreateRepository ==
    /\ backupPc = "repository"
    /\ IF backupCall[1].repoOk
       THEN /\ backupPc' = "upload"
            /\ UNCHANGED backupResult
       ELSE /\ backupResult' = <<Err(<<"R","e","p","o","s","i","t","o","r","y"," ","c","r","e","a","t","i","o","n"," ","f","a","i","l","e","d">>)>>
            /\ backupPc' = "done"
    /\ UNCHANGED <<backupCall, analyzedConfigs, outsideBackup>>

\* Step 3 and the return, lines 58-79
UploadConfigurations ==
    /\ backupPc = "upload"
    /\ backupResult' =
          IF backupCall[1].uploadOk
          THEN <<Ok([repoUrl |-> backupRepoUrl,
                     configCount |-> Len(backupCall[1].configs),
                     analysisCount |-> analysisCountOf(analyzedConfigs)])>>
          ELSE <<Err(<<"C","o","n","f","i","g","u","r","a","t","i","o","n"," ","u","p","l","o","a","d"," ","f","a","i","l","e","d">>)>>
    /\ backupPc' = "done"
    /\ UNCHANGED <<backupCall, analyzedConfigs, outsideBackup>>

NextBackup ==
    \/ StartBackup
    \/ AnalyzeConfigs
    \/ CreateRepository
    \/ UploadConfigurations

SpecBackup == InitClassify /\ [][NextBackup]_vars

(***************************************************************************)
(* AnalysisManager.analyzeMultipleConfigs (analysis-manager.ts), step by   *)
(* step.  The function runs from one await to the next: the call starts    *)
(* the analyzeConfig calls of the first batch, each of which runs up to    *)
(* its await of the AI service; the AI service answers the calls in any    *)
(* order; Promise.allSettled hands the batch over when all of them are     *)
(* settled; the timer of the delay starts the next batch.                  *)
(***************************************************************************)
\* line 430
batchSize == 5

\* longest list of configurations handed to analyzeMultipleConfigs
MaxAnalyzed == 6

\* the k-th configuration of a call
analysisConfig(k) ==
    [path |-> <<"~","/","c">> \o numberToString(k), type |-> backupTypes[((k - 1) % 2) + 1],
     content |-> backupContents[((k - 1) % 2) + 1], dependencies |-> <<>>,
     aiAnalysis |-> <<>>, backupStatus |-> <<"n","o","t","_","b","a","c","k","e","d","_","u","p">>]

\* configs.slice(i, i + batchSize), as positions of configs
batchOf(i, n) == {k \in 1..n : i < k /\ k <= i + batchSize}

\* the message of the Error the AI service returns
aiError == <<"A","I"," ","a","n","a","l","y","s","i","s"," ","f","a","i","l","e","d",":"," ","u","n","a","v","a","i","l","a","b","l","e">>

\* batch.map(config => this.analyzeConfig(config)) at loop index i: every
\* call of the batch runs up to its await
launchBatch(call, i) ==
    [call EXCEPT
        !.i = i,
        !.configs = [k \in 1..Len(@) |->
                        IF k \in batchOf(i, Len(@)) THEN withDependencies(@[k]) ELSE @[k]],
        !.started = @ \cup batchOf(i, Len(call.configs))]

\* the calls of analyzeConfig that have started and not settled
inFlight(call) == call.started \ call.settled

\* Promise.any(batchPromises): settled with the first call
batchSettledWithTheFirst(call, batch) == batch \cap call.settled # {}

\* Promise.allSettled(batchPromises) is settled
batchSettled(call, batch) == batch \subseteq call.settled

\* lines 436-444, batchResults.forEach: what the batch adds to results
batchResultsOf(call, n) ==
    flat([k \in 1..n |->
             IF k \in batchOf(call.i, n) /\ k \in call.aiOk
             THEN <<call.configs[k]>> ELSE <<>>])

\* and what it adds to errors
batchErrorsOf(call, n) ==
    flat([k \in 1..n |->
             IF k \in batchOf(call.i, n) /\ k \notin call.aiOk
             THEN <<aiError>> ELSE <<>>])

\* a return that fails as soon as one analysis failed
analysisOutcomeOfAllOrNothing(results, errs) ==
    IF Len(errs) > 0
    THEN Err(<<"A","l","l"," ","a","n","a","l","y","s","e","s"," ","f","a","i","l","e","d",":"," ">> \o joinWith(errs, <<","," ">>))
    ELSE Ok(results)

\* lines 453-460: what analyzeMultipleConfigs returns
analysisOutcome(results, errs) ==
    IF Len(errs) > 0 /\ Len(results) = 0
    THEN Err(<<"A","l","l"," ","a","n","a","l","y","s","e","s"," ","f","a","i","l","e","d",":"," ">> \o joinWith(errs, <<","," ">>))
    ELSE Ok(results)

\* what an analysis leaves alone
outsideAnalysis == <<scanVars, classVars, factoryVars, textVars, restoreVars, backupVars>>

\* analyzeMultipleConfigs is called: lines 426-434, up to the first await
StartAnalysis ==
    /\ analysisPc = "idle"
    /\ \E n \in 0..MaxAnalyzed :
          \E aiOk \in SUBSET (1..n) :
              /\ analysisCall' =
                    <<launchBatch([given |-> [k \in 1..n |-> analysisConfig(k)],
                                   configs |-> [k \in 1..n |-> analysisConfig(k)],
                                   aiOk |-> aiOk, i |-> 0, results |-> <<>>,
                                   errors |-> <<>>, started |-> {}, settled |-> {}], 0)>>
              /\ IF n = 0
                 THEN /\ analysisResult' = <<analysisOutcome(<<>>, <<>>)>>
                      /\ analysisPc' = "done"
                 ELSE /\ analysisPc' = "await"
                      /\ UNCHANGED analysisResult
    /\ UNCHANGED outsideAnalysis

\* the AI service answers one call, and analyzeConfig runs on from its await:
\* lines 404-412
Settle ==
    /\ analysisPc = "await"
    /\ \E k \in inFlight(analysisCall[1]) :
          analysisCall' = <<[analysisCall[1] EXCEPT
              !.configs[k] = aiAnswered(@, k \in analysisCall[1].aiOk),
              !.settled = @ \cup {k}]>>
    /\ UNCHANGED <<analysisPc, analysisResult, outsideAnalysis>>

\* Promise.allSettled is settled: lines 434-449, and the return of lines
\* 453-460 after the last batch
CollectBatch ==
    /\ analysisPc = "await"
    /\ batchSettled(analysisCall[1],
                    batchOf(analysisCall[1].i, Len(analysisCall[1].configs)))
    /\ analysisCall' = <<[analysisCall[1] EXCEPT
          !.results = @ \o batchResultsOf(analysisCall[1], Len(analysisCall[1].configs)),
          !.errors = @ \o batchErrorsOf(analysisCall[1], Len(analysisCall[1].configs))]>>
    /\ IF analysisCall[1].i + batchSize < Len(analysisCall[1].configs)
       THEN /\ analysisPc' = "delay"
            /\ UNCHANGED analysisResult
       ELSE /\ analysisResult' =
                  <<analysisOutcome(
                      analysisCall[1].results
                          \o batchResultsOf(analysisCall[1], Len(analysisCall[1].configs)),
                      analysisCall[1].errors
                          \o batchErrorsOf(analysisCall[1], Len(analysisCall[1].configs)))>>
            /\ analysisPc' = "done"
    /\ UNCHANGED outsideAnalysis

\* the timer of line 450 fires: i += batchSize and the next batch, lines
\* 431-434
Delay ==
    /\ analysisPc = "delay"
    /\ analysisCall' = <<launchBatch(analysisCall[1], analysisCall[1].i + batchSize)>>
    /\ analysisPc' = "await"
    /\ UNCHANGED <<analysisResult, outsideAnalysis>>

NextAnalysis ==
    \/ StartAnalysis
    \/ Settle
    \/ CollectBatch
    \/ Delay

SpecAnalysis == InitClassify /\ [][NextAnalysis]_vars

(***************************************************************************)
(* What the properties below say of a scan, read off the file system and   *)
(* the options rather than off the scanner.                                *)
(***************************************************************************)
\* the resolved path of the k-th requested path
Resolved(k) == resolvePath(pathsToScan[k])

\* the requests whose loop iteration is over
Processed == 1..Len(produced)

\* how many processed requests resolve to path p
Occurrences(p) == Cardinality({k \in Processed : Resolved(k) = p})

\* the ScanErrors reported for path p
ErrorsFor(p) == {e \in 1..Len(errors) : errors[e].path = p}

\* the configs at path p or, for a directory, below it
ConfigsAt(p) == {c \in 1..Len(configs) : configs[c].path = p \/ isBelow(configs[c].path, p)}

Exists(p) == p \in DOMAIN fs

\* stat fails on p, p is a special file, or reading p fails
CannotBeScanned(p) ==
    \/ ~Exists(p)
    \/ fs[p].statErr # ""
    \/ fs[p].kind = "special"
    \/ fs[p].readErr # ""

\* a readable regular file whose base name is in the classification table
\* and whose size is within every limit the scans here use
KnownConfigFile(p) ==
    /\ Exists(p)
    /\ fs[p].kind = "file" /\ fs[p].statErr = "" /\ fs[p].readErr = ""
    /\ fs[p].size <= 5
    /\ basename(p) \in DOMAIN CONFIG_TYPE_MAPPING

\* the limit the caller configured: options.maxFileSize when it is given,
\* the 10MB default when it is not
ConfiguredLimit ==
    IF options.maxFileSize = <<>> THEN MAX_FILE_SIZE ELSE options.maxFileSize[1]

Returned == pc = "done" /\ result # <<>>

(***************************************************************************)
(* C1: scan returns success = true with a ScanResult for every list of     *)
(* requested paths on every file system, and every requested path is       *)
(* scanned whatever happened to the paths before it: it was stat'ed, it    *)
(* has a ScanError if it cannot be scanned, and it has a config if it is a *)
(* readable known configuration file.                                      *)
(***************************************************************************)
C1_ScanSucceedsAndScansEveryPath ==
    Returned =>
        /\ result[1].success
        /\ Len(produced) = Len(pathsToScan)
        /\ \A k \in 1..Len(pathsToScan) :
              LET p == Resolved(k)
              IN  /\ \E e \in 1..Len(fsLog) : fsLog[e] = Event("stat", p)
                  /\ CannotBeScanned(p) => ErrorsFor(p) # {}
                  /\ KnownConfigFile(p) =>
                        \E c \in 1..Len(result[1].data.configs) :
                            result[1].data.configs[c].path = p

\* a scan has returned in which a path that cannot be scanned came right
\* before a configuration file, whose config is in the result
C1_Witness ==
    /\ Returned
    /\ \E k \in 1..(Len(pathsToScan) - 1) :
          /\ CannotBeScanned(Resolved(k))
          /\ KnownConfigFile(Resolved(k + 1))
          /\ produced[k + 1] = 1

(***************************************************************************)
(* C2: a requested path that does not exist has no config and exactly one  *)
(* ScanError per request, and each of these errors has type not_found.     *)
(***************************************************************************)
C2_MissingPathIsNotFound ==
    \A k \in Processed :
        LET p == Resolved(k)
        IN  ~Exists(p) =>
              /\ ConfigsAt(p) = {}
              /\ Cardinality(ErrorsFor(p)) = Occurrences(p)
              /\ \A e \in ErrorsFor(p) : errors[e].type = "not_found"

(***************************************************************************)
(* C3: a requested regular file whose size exceeds the configured          *)
(* maxFileSize (any value of 0 or more, or the 10MB default) has no config *)
(* and exactly one ScanError per request, of type size_limit.              *)
(***************************************************************************)
C3_OversizedFileIsSizeLimit ==
    \A k \in Processed :
        LET p == Resolved(k)
        IN  (/\ Exists(p)
             /\ fs[p].kind = "file" /\ fs[p].statErr = ""
             /\ fs[p].size > ConfiguredLimit) =>
              /\ ConfigsAt(p) = {}
              /\ Cardinality(ErrorsFor(p)) = Occurrences(p)
              /\ \A e \in ErrorsFor(p) : errors[e].type = "size_limit"

(***************************************************************************)
(* C4: in every invocation of scanFile the content is read only after the  *)
(* size check: the call before a readFile is the stat of the same file in  *)
(* the same invocation, the file's size is within the configured limit,    *)
(* and no invocation reads twice.                                          *)
(***************************************************************************)
C4_ReadOnlyAfterSizeCheck ==
    \A e \in 1..Len(fsLog) :
        fsLog[e].op = "readFile" =>
            /\ e > 2
            /\ fsLog[e - 1] = Event("stat", fsLog[e].path)
            /\ fsLog[e - 2] = Event("scanFile", fsLog[e].path)
            /\ fs[fsLog[e].path].size <= ConfiguredLimit

RECURSIVE SumSeq(_)
SumSeq(s) == IF s = <<>> THEN 0 ELSE Head(s) + SumSeq(Tail(s))

C7_ConfigTypesAreConfigTypes ==
    \A c \in 1..Len(configs) :
        /\ configs[c].type \in ConfigType
        /\ (/\ basename(configs[c].path) \notin DOMAIN CONFIG_TYPE_MAPPING
            /\ extname(configs[c].path) \notin DOMAIN CONFIG_TYPE_MAPPING)
              => configs[c].type = "custom"

(***************************************************************************)
(* C8: the classifier returns the table's kind for a base name that is a   *)
(* key of the table, whatever the extension; else the table's kind for an  *)
(* extension that is a key; else custom when the base name contains a      *)
(* supported-extension substring; else nothing.                            *)
(***************************************************************************)
TableClassification(fileName) ==
    IF fileName \in DOMAIN CONFIG_TYPE_MAPPING
    THEN CONFIG_TYPE_MAPPING[fileName]
    ELSE IF extname(fileName) \in DOMAIN CONFIG_TYPE_MAPPING
    THEN CONFIG_TYPE_MAPPING[extname(fileName)]
    ELSE IF \E k \in 1..Len(SUPPORTED_EXTENSIONS) :
                includes(fileName, SUPPORTED_EXTENSIONS[k])
    THEN "custom"
    ELSE "null"

C8_ClassifierFollowsTable ==
    classified # <<>> => classified[1] = TableClassification(harnessName)

(***************************************************************************)
(* C9: during a directory walk an entry is skipped by the exclusion        *)
(* matcher if and only if some exclude pattern matches a substring of the  *)
(* entry's full path, "*" standing for any sequence of characters and      *)
(* every other character for itself; without patterns nothing is skipped.  *)
(***************************************************************************)
\* does pattern[i..] match a prefix of s[j..], as a glob
RECURSIVE globMatchHere(_, _, _, _)
globMatchHere(pattern, i, s, j) ==
    IF i > Len(pattern) THEN TRUE
    ELSE IF pattern[i] = "*"
    THEN \E k \in j..(Len(s) + 1) : globMatchHere(pattern, i + 1, s, k)
    ELSE /\ j <= Len(s)
         /\ pattern[i] = s[j]
         /\ globMatchHere(pattern, i + 1, s, j + 1)

GlobExcludes(path) ==
    /\ options.excludePatterns # <<>>
    /\ \E k \in 1..Len(options.excludePatterns[1]) :
          \E j \in 1..(Len(path) + 1) :
              globMatchHere(options.excludePatterns[1][k], 1, path, j)

C9_SkippedIffGlobMatches ==
    \A e \in 1..Len(fsLog) :
        isBelow(fsLog[e].path, Resolved(1)) =>
            /\ fsLog[e].op = "skipExcluded" => GlobExcludes(fsLog[e].path)
            /\ fsLog[e].op \in {"scanFile", "readdir"} => ~GlobExcludes(fsLog[e].path)

(***************************************************************************)
(* C10: with includeHidden false or omitted a directory walk yields no     *)
(* config for an entry whose name starts with "." and makes no call on     *)
(* such an entry or below it; with includeHidden true no entry is skipped  *)
(* for its name, and a hidden configuration file in the requested          *)
(* directory has its config unless a pattern excludes it or the walk of    *)
(* the directory failed.                                                   *)
(***************************************************************************)
\* q lies below the requested directory, in or below an entry named ".*"
HiddenBelow(q, root) ==
    /\ isBelow(q, root)
    /\ LET rel == SubSeq(q, Len(root) + 2, Len(q))
       IN  startsWith(rel, <<".">>) \/ includes(rel, <<"/",".">>)

C10_HiddenEntriesFollowTheFlag ==
    pathsToScan # <<>> =>
        LET root == Resolved(1)
        IN  /\ options.includeHidden \in {<<>>, <<FALSE>>} =>
                /\ \A c \in 1..Len(configs) : ~HiddenBelow(configs[c].path, root)
                /\ \A e \in 1..Len(fsLog) :
                      fsLog[e].op # "skipHidden" => ~HiddenBelow(fsLog[e].path, root)
            /\ options.includeHidden = <<TRUE>> =>
                /\ \A e \in 1..Len(fsLog) : fsLog[e].op # "skipHidden"
                /\ \A q \in DOMAIN fs :
                      (/\ Processed # {}
                       /\ Exists(root) /\ fs[root].kind = "dir" /\ ~CannotBeScanned(root)
                       /\ dirname(q) = root /\ startsWith(basename(q), <<".">>)
                       /\ KnownConfigFile(q)
                       /\ errors = <<>>
                       /\ ~shouldExclude(q, options.excludePatterns))
                        => \E c \in 1..Len(configs) : configs[c].path = q

\* a walk of /d without includeHidden has skipped .vimrc and .git and still
\* found configs
C10_Witness ==
    /\ Returned
    /\ options.includeHidden \in {<<>>, <<FALSE>>}
    /\ pathsToScan = <<<<"/","d">>>>
    /\ \E e \in 1..Len(fsLog) : fsLog[e] = Event("skipHidden", <<"/","d","/",".","g","i","t">>)
    /\ \E e \in 1..Len(fsLog) : fsLog[e] = Event("skipHidden", <<"/","d","/",".","v","i","m","r","c">>)
    /\ configs # <<>>

(***************************************************************************)
(* C11: scanning a requested readable directory with includeHidden true    *)
(* returns exactly one config for every regular file anywhere below it     *)
(* that is not excluded, is within the configured size limit, is readable  *)
(* and is classifiable by the table, no config for anything else, and no   *)
(* ScanError for the directory.                                            *)
(***************************************************************************)
ReadableDirectory(p) == Exists(p) /\ fs[p].kind = "dir" /\ fs[p].statErr = "" /\ fs[p].readErr = ""

ReadableFile(p) == Exists(p) /\ fs[p].kind = "file" /\ fs[p].statErr = "" /\ fs[p].readErr = ""

\* the walk from root gets to q: q is not excluded, and every directory
\* between root and q can be listed and is not excluded
WalkReaches(q, root) ==
    /\ isBelow(q, root)
    /\ ~shouldExclude(q, options.excludePatterns)
    /\ \A a \in DOMAIN fs :
          (isBelow(a, root) /\ isBelow(q, a)) =>
              ReadableDirectory(a) /\ ~shouldExclude(a, options.excludePatterns)

ExpectedConfig(q, root) ==
    /\ WalkReaches(q, root)
    /\ ReadableFile(q)
    /\ fs[q].size <= ConfiguredLimit
    /\ TableClassification(basename(q)) # "null"

C11_WalkFindsExactlyTheConfigs ==
    (/\ Processed # {}
     /\ options.includeHidden = <<TRUE>>
     /\ ReadableDirectory(Resolved(1))) =>
        LET root == Resolved(1)
        IN  /\ \A q \in DOMAIN fs :
                  Cardinality({c \in 1..Len(configs) : configs[c].path = q}) =
                      IF ExpectedConfig(q, root) THEN 1 ELSE 0
            /\ \A c \in 1..Len(configs) : configs[c].path \in DOMAIN fs
            /\ ErrorsFor(root) = {}

(***************************************************************************)
(* C12: a file found during the walk of a requested directory whose scan   *)
(* fails - its stat fails, its size is over the limit scanFile applies, or *)
(* its read fails - has no config and no ScanError, the walk goes on to    *)
(* every entry after it, and the requested directory has no ScanError and  *)
(* the scan returns success.                                               *)
(***************************************************************************)
\* scanFile was invoked on q during the walk
ScannedInWalk(q) ==
    /\ Processed # {}
    /\ isBelow(q, Resolved(1))
    /\ \E e \in 1..Len(fsLog) : fsLog[e] = Event("scanFile", q)

FailsToScan(q) ==
    /\ Exists(q)
    /\ \/ fs[q].statErr # ""
       \/ fs[q].size > sizeLimit(options)
       \/ fs[q].readErr # ""

\* the walk dealt with entry q: skipped it, scanned it or listed it
Visited(q) ==
    \E e \in 1..Len(fsLog) :
        /\ fsLog[e].path = q
        /\ fsLog[e].op \in {"skipHidden", "skipExcluded", "scanFile", "readdir"}

C12_FailedFilesAreDroppedInWalks ==
    \A q \in DOMAIN fs :
        (ScannedInWalk(q) /\ FailsToScan(q)) =>
            /\ \A c \in 1..Len(configs) : configs[c].path # q
            /\ ErrorsFor(q) = {}
            /\ \A s \in DOMAIN fs :
                  (dirname(s) = dirname(q) /\ fs[s].kind # "special") => Visited(s)
            /\ ErrorsFor(Resolved(1)) = {}
            /\ produced[1] = Len(configs)
            /\ Returned => result[1].success /\ result[1].data.errors = <<>>

\* a walk has returned in which a file failed its stat and a config was
\* found in a directory after it
C12_StatFailureDropped ==
    /\ Returned
    /\ \E e \in 1..Len(fsLog) :
          /\ fsLog[e].op = "scanFile" /\ ScannedInWalk(fsLog[e].path)
          /\ fs[fsLog[e].path].statErr # ""
          /\ \E c \in 1..Len(configs) : dirname(configs[c].path) # dirname(fsLog[e].path)

\* a walk has returned in which a file over the limit and a file whose read
\* failed were dropped and a later entry still gave its config
C12_Witness ==
    /\ Returned
    /\ ScannedInWalk(<<"/","d","/","b","i","g",".","c","o","n","f">>) /\ FailsToScan(<<"/","d","/","b","i","g",".","c","o","n","f">>)
    /\ ScannedInWalk(<<"/","d","/","s","e","c","r","e","t",".","c","o","n","f">>) /\ FailsToScan(<<"/","d","/","s","e","c","r","e","t",".","c","o","n","f">>)
    /\ \E c \in 1..Len(configs) : configs[c].path = <<"/","d","/","s","u","b","/","c","o","n","f","i","g">>
    /\ errors = <<>>

(***************************************************************************)
(* C13: on one file system and with the same options, the scan of every    *)
(* permutation of a list of requested paths returns the same configs and   *)
(* the same ScanErrors, as multisets, and the same metadata.totalFiles and *)
(* metadata.validConfigs, as the scan of the list itself.                  *)
(***************************************************************************)
Orderings(n) ==
    {perm \in [1..n -> 1..n] : \A i, j \in 1..n : i # j => perm[i] # perm[j]}

Permuted(s, perm) == [i \in 1..Len(s) |-> s[perm[i]]]

\* the multiset of the elements of a sequence
SeqToBag(s) == [x \in Range(s) |-> Cardinality({k \in 1..Len(s) : s[k] = x})]

\* the ScanResult of scanning some other list of paths on this file system
\* with these options
ScanOf(paths, results) == ScanResultOf(paths, scanLoop(paths, results))

C13_PermutedPathsSameResult ==
    (Returned /\ result[1].success /\ options.paths # <<>>) =>
        LET results == PathResults(fs, options, pathsToScan)
            here    == result[1].data
        IN  /\ ScanOf(pathsToScan, results) = here
            /\ \A perm \in Orderings(Len(pathsToScan)) :
                  LET other == ScanOf(Permuted(pathsToScan, perm), results)
                  IN  /\ SeqToBag(other.configs) = SeqToBag(here.configs)
                      /\ SeqToBag(other.errors) = SeqToBag(here.errors)
                      /\ other.metadata.totalFiles = here.metadata.totalFiles
                      /\ other.metadata.validConfigs = here.metadata.validConfigs

\* a scan of two paths has returned configs of both, and scanning them in
\* the other order returns the configs in another order
C13_Witness ==
    /\ Returned /\ result[1].success
    /\ Len(pathsToScan) = 2
    /\ produced[1] > 0 /\ produced[2] > 0
    /\ LET results  == PathResults(fs, options, pathsToScan)
           reversed == <<pathsToScan[2], pathsToScan[1]>>
       IN  ScanOf(reversed, results).configs # result[1].data.configs

(***************************************************************************)
(* C14: after any sequence of getParser calls, every two calls for the     *)
(* same configuration kind returned the identical parser instance, and at  *)
(* most one instance has been constructed for each kind.                   *)
(***************************************************************************)
C14_OneParserPerKind ==
    /\ \A i, j \in 1..Len(returned) :
          returned[i].configType = returned[j].configType
              => returned[i].instance = returned[j].instance
    /\ \A kind \in ConfigType :
          Cardinality({k \in 1..Len(created) : created[k].for = kind}) <= 1
    /\ \A i \in 1..Len(returned) :
          /\ returned[i].instance \in 1..Len(created)
          /\ created[returned[i].instance].for = returned[i].configType

\* a kind has been asked for twice, with another kind in between, and two
\* instances exist
C14_Witness ==
    /\ Len(returned) = 3
    /\ returned[1].configType = returned[3].configType
    /\ returned[1].configType # returned[2].configType
    /\ Len(created) = 2

(***************************************************************************)
(* What the properties below say of a text handed to the parsers.          *)
(***************************************************************************)
Analyzed == analysis # <<>>

\* the lines of the text
InputLines == splitLines(parserInput)

(***************************************************************************)
(* C15: for every text and each of the four parser classes, the            *)
(* ValidationResult of validate has isValid false if and only if its       *)
(* errors list is not empty, whatever warnings and suggestions it has.     *)
(***************************************************************************)
ValidIffNoErrors(validation) == validation.isValid <=> validation.errors = <<>>

C15_InvalidIffErrors ==
    Analyzed =>
        /\ ValidIffNoErrors(analysis[1].bash)
        /\ ValidIffNoErrors(analysis[1].git)
        /\ ValidIffNoErrors(analysis[1].vim)
        /\ ValidIffNoErrors(analysis[1].simple)

\* a text has been validated that the shell parser finds valid with a
\* warning, the version-control parser invalid with errors, and the editor
\* parser valid with a suggestion
C15_Witness ==
    /\ Analyzed
    /\ analysis[1].bash.isValid /\ analysis[1].bash.warnings # <<>>
    /\ ~analysis[1].git.isValid /\ analysis[1].git.errors # <<>>
    /\ analysis[1].vim.isValid /\ analysis[1].vim.suggestions # <<>>

(***************************************************************************)
(* C16: for every shell text, a line export NAME="value" with an           *)
(* uppercase-style NAME makes parse return variables with NAME mapped to   *)
(* the unquoted value, and a line alias ll="ls -la" of the same text       *)
(* gives the alias name ll.                                                *)
(***************************************************************************)
\* the line is export NAME="value"
IsQuotedExport(line) ==
    /\ startsWith(line, <<"e","x","p","o","r","t"," ">>)
    /\ LET equals == indexOf(line, <<"=">>)
       IN  /\ equals > 8
           /\ isUpper(line[8]) \/ line[8] = "_"
           /\ \A k \in 8..(equals - 1) : isNameChar(line[k])
           /\ Len(line) >= equals + 2
           /\ line[equals + 1] = "\"" /\ line[Len(line)] = "\""

ExportedName(line) == SubSeq(line, 8, indexOf(line, <<"=">>) - 1)

ExportedValue(line) == SubSeq(line, indexOf(line, <<"=">>) + 2, Len(line) - 1)

C16_ExportAndAliasExtracted ==
    Analyzed =>
        \A k \in 1..Len(InputLines) :
            LET line == InputLines[k]
            IN  /\ IsQuotedExport(line) =>
                      /\ ExportedName(line) \in DOMAIN analysis[1].parsed.variables
                      /\ analysis[1].parsed.variables[ExportedName(line)]
                            = Value("string", ExportedValue(line))
                /\ line = <<"a","l","i","a","s"," ","l","l","=">> \o <<"\"">> \o <<"l","s"," ","-","l","a">> \o <<"\"">> =>
                      \E a \in 1..Len(analysis[1].parsed.aliases) :
                          analysis[1].parsed.aliases[a] = <<"l","l">>

(***************************************************************************)
(* C17: for every text made of package-manager install lines (apt,         *)
(* apt-get, snap, pip or npm install), extractDependencies returns exactly *)
(* the argument tokens of those lines that are not flags, each once.       *)
(***************************************************************************)
PackageManagers == {<<"a","p","t">>, <<"a","p","t","-","g","e","t">>, <<"s","n","a","p">>, <<"p","i","p">>, <<"n","p","m">>}

\* the position of the package manager in the words of an install line
InstallAt(words) ==
    {i \in 1..(Len(words) - 2) : words[i] \in PackageManagers /\ words[i + 1] = <<"i","n","s","t","a","l","l">>}

IsInstallLine(line) == InstallAt(tokensFrom(line, 1)) # {}

\* the arguments of an install line that are not flags
InstallTokens(line) ==
    LET words == tokensFrom(line, 1)
        i == CHOOSE j \in InstallAt(words) : \A m \in InstallAt(words) : j <= m
    IN  {words[j] : j \in {m \in (i + 2)..Len(words) : ~startsWith(words[m], <<"-">>)}}

C17_DependenciesAreInstallTokens ==
    (Analyzed /\ \A k \in 1..Len(InputLines) : IsInstallLine(InputLines[k])) =>
        LET deps == analysis[1].dependencies
        IN  /\ Range(deps) = UNION {InstallTokens(InputLines[k]) : k \in 1..Len(InputLines)}
            /\ Cardinality(Range(deps)) = Len(deps)

(***************************************************************************)
(* C18: BashParser.validate reports an error for a line if and only if the *)
(* line has unbalanced arithmetic-expansion markers, unbalanced            *)
(* variable-expansion braces or an odd number of backticks, and isValid is *)
(* false exactly when some line has one of these.                          *)
(***************************************************************************)
\* how many openers are left open at the end of s: an opener opens, a closer
\* closes the innermost open one
RECURSIVE OpenAtEnd(_, _, _, _, _)
OpenAtEnd(s, i, opener, closer, depth) ==
    IF i > Len(s) THEN depth
    ELSE IF occursAt(s, i, opener)
    THEN OpenAtEnd(s, i + Len(opener), opener, closer, depth + 1)
    ELSE IF depth > 0 /\ occursAt(s, i, closer)
    THEN OpenAtEnd(s, i + Len(closer), opener, closer, depth - 1)
    ELSE OpenAtEnd(s, i + 1, opener, closer, depth)

HasSyntaxError(line) ==
    \/ OpenAtEnd(line, 1, <<"$","(","(">>, <<")",")">>, 0) > 0
    \/ OpenAtEnd(line, 1, <<"$","{">>, <<"}">>, 0) > 0
    \/ occurrences(line, Backtick) % 2 = 1

\* the lines an error of the ValidationResult is reported for
ErrorLines(validation) ==
    {k \in 1..Len(InputLines) :
        \E e \in 1..Len(validation.errors) :
            startsWith(validation.errors[e], <<"L","i","n","e"," ">> \o numberToString(k) \o <<":">>)}

C18_ErrorsIffUnbalanced ==
    Analyzed =>
        /\ ErrorLines(analysis[1].bash) =
              {k \in 1..Len(InputLines) : HasSyntaxError(InputLines[k])}
        /\ analysis[1].bash.isValid <=>
              \A k \in 1..Len(InputLines) : ~HasSyntaxError(InputLines[k])

(***************************************************************************)
(* C19: with dryRun = true, restoreFromRepository makes no change to the   *)
(* user's files, whatever createBackups and installPackages are: it writes *)
(* no configuration file and no backup file, installs no package and runs  *)
(* no setup script.                                                        *)
(***************************************************************************)
\* the clone into the temporary directory is the one call a dry run may make
ChangesNothing(effect) ==
    effect.op = "execSync" /\ startsWith(effect.target, <<"g","i","t"," ","c","l","o","n","e"," ">>)

C19_DryRunChangesNothing ==
    (restoreOptions # <<>> /\ restoreOptions[1].dryRun = <<TRUE>>) =>
        \A k \in 1..Len(effects) : ChangesNothing(effects[k])

(***************************************************************************)
(* C20: when createBackup succeeds, it reports analysisCount = 0 whenever  *)
(* includeAI is false or the AI analysis of the batch fails, for every     *)
(* list of configurations; and the backup still succeeds when the AI       *)
(* analysis fails.                                                         *)
(***************************************************************************)
\* the AI analysis of the batch was asked for and failed
AnalysisFailed ==
    /\ backupCall # <<>>
    /\ backupCall[1].analysisResult # <<>>
    /\ ~backupCall[1].analysisResult[1].success

C20_NoAnalysisCountsZero ==
    (backupPc = "done" /\ (~truthy(backupCall[1].includeAI) \/ AnalysisFailed)) =>
        /\ backupResult[1].success => backupResult[1].data[1].analysisCount = 0
        /\ (AnalysisFailed /\ backupCall[1].repoOk /\ backupCall[1].uploadOk) =>
              backupResult[1].success

(***************************************************************************)
(* C22: when the read of a nested subdirectory fails during the walk of a  *)
(* requested directory, the subtree has no config and no ScanError, the    *)
(* walk goes on to the sibling entries and the requested directory has no  *)
(* ScanError; a requested directory has a ScanError only when its own stat *)
(* or its own read fails.                                                  *)
(***************************************************************************)
\* scanDirectory was invoked on q, below the requested directory, and its
\* readdir failed
FailedSubdirectory(q) ==
    /\ Processed # {}
    /\ isBelow(q, Resolved(1))
    /\ \E e \in 1..Len(fsLog) : fsLog[e] = Event("readdir", q)
    /\ ~Exists(q) \/ fs[q].readErr # ""

\* the requested path is not a file or a special file
RequestedDirectory(p) == ~Exists(p) \/ fs[p].statErr # "" \/ fs[p].kind = "dir"

C22_OnlyTopLevelFailuresAreErrors ==
    /\ \A q \in DOMAIN fs :
          FailedSubdirectory(q) =>
              /\ ConfigsAt(q) = {}
              /\ ErrorsFor(q) = {}
              /\ \A s \in DOMAIN fs :
                    (dirname(s) = dirname(q) /\ fs[s].kind # "special") => Visited(s)
              /\ ErrorsFor(Resolved(1)) = {}
    /\ (Processed # {} /\ RequestedDirectory(Resolved(1)) /\ errors # <<>>) =>
          \/ ~Exists(Resolved(1))
          \/ fs[Resolved(1)].statErr # ""
          \/ fs[Resolved(1)].readErr # ""

(***************************************************************************)
(* C23: the exclude patterns and the hidden-file policy apply to the       *)
(* entries found inside a walk only: a requested path is scanned even when *)
(* a pattern matches it or its name starts with "." and includeHidden is   *)
(* not true.                                                               *)
(***************************************************************************)
\* the scan has called op on path
Called(op, path) == \E e \in 1..Len(fsLog) : fsLog[e] = Event(op, path)

\* the requested path is a file scanFile can turn into a config
RequestedConfigFile(p) ==
    /\ ReadableFile(p)
    /\ fs[p].size <= sizeLimit(options)
    /\ determineConfigType(p) # "null"

C23_RequestedPathIsNeverFiltered ==
    Processed # {} =>
        /\ Called("stat", Resolved(1))
        /\ ~Called("skipHidden", Resolved(1)) /\ ~Called("skipExcluded", Resolved(1))
        /\ RequestedConfigFile(Resolved(1)) =>
              \E c \in 1..Len(configs) : configs[c].path = Resolved(1)
        /\ (Exists(Resolved(1)) /\ fs[Resolved(1)].statErr = ""
            /\ fs[Resolved(1)].kind = "dir") => Called("readdir", Resolved(1))

\* the hidden file /d/.vimrc was requested without includeHidden and with a
\* pattern that matches it, and its config was returned
C23_Witness ==
    /\ Returned
    /\ pathsToScan = <<<<"/","d","/",".","v","i","m","r","c">>>>
    /\ options.includeHidden \in {<<>>, <<FALSE>>}
    /\ shouldExclude(<<"/","d","/",".","v","i","m","r","c">>, options.excludePatterns)
    /\ \E c \in 1..Len(configs) : configs[c].path = <<"/","d","/",".","v","i","m","r","c">>

(***************************************************************************)
(* C24: for every parser and every text on which parse succeeds, the       *)
(* validation field of the returned ParsedConfig equals the                *)
(* ValidationResult that the same parser's validate returns for the same   *)
(* text: it is invalid and lists the errors whenever validate reports      *)
(* errors.  Stated here for BashParser on the texts of the harness.        *)
(***************************************************************************)
C24_ParseCarriesTheValidation ==
    (analysis # <<>> /\ analysis[1].parsed.success) =>
        analysis[1].parsed.validation = analysis[1].bash

(***************************************************************************)
(* C25: GitParser.parse, for every section [remote "NAME"], records        *)
(* remotes[NAME] equal to the value of that section's url key, whatever    *)
(* other keys the section holds and in whatever order they appear.         *)
(***************************************************************************)
\* the keys of a section that read url
urlKeys(section) == {key \in DOMAIN section : trim(key) = <<"u","r","l">>}

C25_RemoteIsItsUrl ==
    analysis # <<>> =>
        \A name \in DOMAIN analysis[1].parsed.sections :
            (/\ startsWith(name, <<"r","e","m","o","t","e">>)
             /\ remoteNameOf(name) # <<>>
             /\ urlKeys(analysis[1].parsed.sections[name]) # {}) =>
                /\ remoteNameOf(name) \in DOMAIN analysis[1].parsed.remotes
                /\ \A key \in urlKeys(analysis[1].parsed.sections[name]) :
                      analysis[1].parsed.remotes[remoteNameOf(name)]
                          = analysis[1].parsed.sections[name][key]

(***************************************************************************)
(* C26: for every INI-style git config text that has a [core] section      *)
(* containing editor = vim (respectively nano), extractDependencies on     *)
(* that text contains vim (respectively nano), in agreement with the       *)
(* core.editor value that parse extracts from the same text; git itself is *)
(* always contained.                                                       *)
(***************************************************************************)
\* the value parse extracted for core.editor is this editor
CoreEditorIs(parsed, editor) ==
    /\ <<"c","o","r","e">> \in DOMAIN parsed.sections
    /\ \E key \in DOMAIN parsed.sections[<<"c","o","r","e">>] :
          /\ trim(key) = <<"e","d","i","t","o","r">>
          /\ parsed.sections[<<"c","o","r","e">>][key] = Value("string", editor)

Contains(dependencies, package) ==
    \E k \in 1..Len(dependencies) : dependencies[k] = package

C26_CoreEditorIsADependency ==
    analysis # <<>> =>
        /\ Contains(analysis[1].dependencies, <<"g","i","t">>)
        /\ \A editor \in {<<"v","i","m">>, <<"n","a","n","o">>} :
              CoreEditorIs(analysis[1].parsed, editor) =>
                  Contains(analysis[1].dependencies, editor)

(***************************************************************************)
(* C27: VimParser.validate emits the plugin-without-initialization warning *)
(* for a plugin declaration line if and only if the text contains no       *)
(* plug#begin initialization call on any line of the file.                 *)
(***************************************************************************)
PluginWarning(lineNum) ==
    lineMessage(lineNum, <<"P","l","u","g","i","n"," ","w","i","t","h","o","u","t"," ","p","l","u","g","#","b","e","g","i","n","(",")"," ","-"," ","e","n","s","u","r","e"," ","v","i","m","-","p","l","u","g"," ","i","s"," ","i","n","s","t","a","l","l","e","d">>)

Initializes(lines) == \E j \in 1..Len(lines) : includes(lines[j], <<"c","a","l","l"," ","p","l","u","g","#","b","e","g","i","n">>)

PluginLinesWarnedOf(lines, warnings) ==
    \A k \in 1..Len(lines) :
        includes(lines[k], <<"P","l","u","g">>) =>
            ((\E w \in 1..Len(warnings) : warnings[w] = PluginWarning(k))
                <=> ~Initializes(lines))

C27_WarnedIffNeverInitialized ==
    analysis # <<>> =>
        PluginLinesWarnedOf(splitLines(parserInput), analysis[1].vim.warnings)

(***************************************************************************)
(* C28: in a restore that is not a dry run and has createBackups = true,   *)
(* no target file that existed before the restore is overwritten by        *)
(* installConfigurations unless a backup file holding its prior content    *)
(* was written earlier in the same restore.                                *)
(***************************************************************************)
\* the call that writes the backup of targetPath with its prior content
IsBackupOf(effect, targetPath, now) ==
    /\ effect.op = "writeFile"
    /\ effect.target = targetPath \o <<".","b","a","c","k","u","p",".">> \o numberToString(now)
    /\ effect.data = oldContent

C28_OverwriteOnlyAfterBackup ==
    (/\ restoreOptions # <<>>
     /\ ~truthy(restoreOptions[1].dryRun)
     /\ truthy(restoreOptions[1].createBackups)) =>
        \A k \in 1..Len(effects) :
            (effects[k].op = "writeFile" /\ effects[k].target \in machine[1].existing) =>
                \E j \in 1..(k - 1) :
                    IsBackupOf(effects[j], effects[k].target, machine[1].now)

(***************************************************************************)
(* C21: analyzeMultipleConfigs returns failure exactly when at least one   *)
(* analysis failed and none succeeded; in every other case, an empty input *)
(* included, it returns success with exactly the successfully analyzed     *)
(* configurations, in input order.                                         *)
(***************************************************************************)
\* the j-th smallest member of a set of positions
nthOf(positions, j) ==
    CHOOSE k \in positions : Cardinality({m \in positions : m < k}) = j - 1

\* data holds the configurations at these positions, in the order of the input
HoldsInInputOrder(data, cfgs, positions) ==
    /\ Len(data) = Cardinality(positions)
    /\ \A j \in 1..Len(data) : data[j] = cfgs[nthOf(positions, j)]

C21_FailsOnlyWhenAllFailed ==
    analysisPc = "done" =>
        /\ ~analysisResult[1].success <=>
              /\ analysisCall[1].aiOk = {}
              /\ Len(analysisCall[1].given) > 0
        /\ analysisResult[1].success =>
              HoldsInInputOrder(analysisResult[1].data[1], analysisCall[1].configs,
                                analysisCall[1].aiOk)

\* a call over two batches with failures and successes in both has returned
C21_Witness ==
    /\ analysisPc = "done"
    /\ analysisResult[1].success
    /\ Len(analysisCall[1].given) > batchSize
    /\ \E k \in 1..batchSize : k \in analysisCall[1].aiOk
    /\ \E k \in 1..batchSize : k \notin analysisCall[1].aiOk
    /\ Len(analysisCall[1].given) \notin analysisCall[1].aiOk
    /\ analysisCall[1].errors # <<>>

(***************************************************************************)
(* C29: when analyzeConfig returns failure, the configuration record       *)
(* passed in is left unchanged: dependencies, aiAnalysis and backupStatus  *)
(* keep their prior values; aiAnalysis is attached and backupStatus        *)
(* becomes pending only when it returns success.                           *)
(***************************************************************************)
\* the analyzeConfig call of the k-th configuration has returned failure
ReturnedFailure(call, k) == k \in call.settled /\ k \notin call.aiOk

C29_FailureLeavesTheRecord ==
    analysisCall # <<>> =>
        \A k \in 1..Len(analysisCall[1].configs) :
            /\ ReturnedFailure(analysisCall[1], k) =>
                  analysisCall[1].configs[k] = analysisCall[1].given[k]
            /\ (\/ analysisCall[1].configs[k].aiAnalysis # analysisCall[1].given[k].aiAnalysis
                \/ analysisCall[1].configs[k].backupStatus = <<"p","e","n","d","i","n","g">>) =>
                  (k \in analysisCall[1].settled /\ k \in analysisCall[1].aiOk)

(***************************************************************************)
(* C30: during analyzeMultipleConfigs at most 5 analyzeConfig calls are in *)
(* flight at any time, and no call belonging to a batch starts before      *)
(* every call of the previous batch has settled.                           *)
(***************************************************************************)
\* the batch the k-th configuration belongs to, counted from 0
batchNumber(k) == (k - 1) \div batchSize

C30_BatchesDoNotOverlap ==
    analysisCall # <<>> =>
        /\ Cardinality(inFlight(analysisCall[1])) <= 5
        /\ \A k \in analysisCall[1].started :
              \A j \in 1..Len(analysisCall[1].configs) :
                  batchNumber(j) < batchNumber(k) => j \in analysisCall[1].settled

\* the second batch is in flight, after a first batch of five calls
C30_Witness ==
    /\ analysisPc = "await"
    /\ analysisCall[1].i = batchSize
    /\ inFlight(analysisCall[1]) # {}
    /\ Cardinality(analysisCall[1].settled) = 5

====
